---- MODULE Spec2Model ----
(***************************************************************************)
(* A model of the baby-log parser (src/data_processing/parser.py) and of   *)
(* the follow-on analysis of src/data_processing/analyzer.py.              *)
(*                                                                         *)
(* Text is a sequence of symbols.  A symbol is one character of the source *)
(* text (a digit, ":", " ", "NL" for the line feed, "(", ")", "/", ".")    *)
(* or one fixed word of the log format written in ASCII: "SEP" is the      *)
(* separator line of ten hyphens, and the Japanese keywords are            *)
(*   okiru = wake, neru = sleep, miruku = milk, bonyu = breast milk,       *)
(*   oshikko = pee, unchi = poop, haku = vomit, ofuro = bath,              *)
(*   taiju = weight, shincho = height, taion = temperature,                *)
(*   byoin = hospital, yobosesshu = vaccination, rinyushoku = baby food,   *)
(*   kusuri = medicine, kensa = test, shochi = treatment,                  *)
(*   shinsatsu = examination, goukei = total, suimin = sleep (summary),    *)
(*   hidari = left, migi = right, fun = minutes, kai = times,              *)
(*   jikan = hours, sai = years, kagetsu = months, nichi = days,           *)
(*   goku shou = smallest, shou = small, chuu = medium, dai = large,       *)
(*   degC = degrees Celsius, "x" and "W" = any other character.            *)
(* The regular expressions of the parser are modelled by matchers over     *)
(* these sequences that follow the backtracking order of Python's re.      *)
(***************************************************************************)
EXTENDS Integers, Sequences, FiniteSets, TLC

VARIABLES
    doc,              \* the structured input the file text was written from
    file_text,        \* content of the file at file_path
    file_ok,          \* whether open(file_path) succeeds
    raw_text,         \* BabyLogParser.raw_text
    days_data,        \* BabyLogParser.days_data
    events_df,        \* BabyLogParser.events_df   (NoFrame = None)
    daily_summary_df, \* BabyLogParser.daily_summary_df
    growth_df,        \* BabyLogParser.growth_df
    last_call,        \* the parser method that ran last
    raised,           \* the exception that call ended with ("none": it returned)
    an_events_df,     \* BabyLogAnalyzer.events_df
    an_daily_df,      \* BabyLogAnalyzer.daily_summary_df
    an_growth_df,     \* BabyLogAnalyzer.growth_df
    an_call,          \* the analyzer method that ran last, with its arguments
    an_result,        \* what that method returned
    an_raised,        \* the exception that method ended with
    data_dir,         \* the files of DATA_DIR
    api_requests      \* the requests the application is serving

vars == <<doc, file_text, file_ok, raw_text, days_data, events_df,
          daily_summary_df, growth_df, last_call, raised,
          an_events_df, an_daily_df, an_growth_df, an_call, an_result, an_raised,
          data_dir, api_requests>>

parser_vars == <<raw_text, days_data, events_df, daily_summary_df, growth_df,
                 last_call, raised>>

analyzer_vars == <<an_events_df, an_daily_df, an_growth_df, an_call, an_result,
                   an_raised>>

api_vars == <<data_dir, api_requests>>

(***************************************************************************)
(* Bounds of the model: the day-blocks of a document, the event lines of   *)
(* a block, the rows of an events frame handed to the analyzer.            *)
(***************************************************************************)
MaxBlocks == 2
MaxLines == 2
MaxRows == 3

(***************************************************************************)
(* Characters and numbers.                                                 *)
(***************************************************************************)
Digits == {"0", "1", "2", "3", "4", "5", "6", "7", "8", "9"}

IsDigit(c) == c \in Digits

\* \s of Python's re: the model's texts hold the space and the line feed
IsSpace(c) == c \in {" ", "NL"}

DigitVal(c) ==
    CASE c = "0" -> 0 [] c = "1" -> 1 [] c = "2" -> 2 [] c = "3" -> 3
      [] c = "4" -> 4 [] c = "5" -> 5 [] c = "6" -> 6 [] c = "7" -> 7
      [] c = "8" -> 8 [] c = "9" -> 9

\* int(s) of a string of digits
RECURSIVE ToInt(_)
ToInt(s) ==
    IF s = <<>> THEN 0
    ELSE 10 * ToInt(SubSeq(s, 1, Len(s) - 1)) + DigitVal(s[Len(s)])

\* text[i], or "" past either end
At(text, i) == IF i >= 1 /\ i <= Len(text) THEN text[i] ELSE ""

\* the first index >= i of a character that is no digit (Len + 1 at the end)
RECURSIVE DigitsEnd(_, _)
DigitsEnd(text, i) ==
    IF IsDigit(At(text, i)) THEN DigitsEnd(text, i + 1) ELSE i

\* the first index >= i of a character that is no white space
RECURSIVE SpaceEnd(_, _)
SpaceEnd(text, i) ==
    IF IsSpace(At(text, i)) THEN SpaceEnd(text, i + 1) ELSE i

\* str.strip()
RECURSIVE Strip(_)
Strip(s) ==
    IF s = <<>> THEN s
    ELSE IF IsSpace(s[1]) THEN Strip(Tail(s))
    ELSE IF IsSpace(s[Len(s)]) THEN Strip(SubSeq(s, 1, Len(s) - 1))
    ELSE s

\* whether pat occurs in text at index i
OccursAt(text, i, pat) ==
    /\ i >= 1
    /\ i + Len(pat) - 1 <= Len(text)
    /\ \A k \in 1..Len(pat) : text[i + k - 1] = pat[k]

\* the least element of a set of indices, 0 for the empty set
FirstOf(S) == IF S = {} THEN 0 ELSE CHOOSE x \in S : \A y \in S : x <= y

\* str.find: the first index >= i where pat occurs, 0 when there is none
FindFrom(text, i, pat) ==
    FirstOf({x \in i..Len(text) : OccursAt(text, x, pat)})

\* the `in` operator on strings
Contains(text, pat) == \E x \in 1..Len(text) : OccursAt(text, x, pat)

(***************************************************************************)
(* The patterns without alternatives: a pattern is a sequence of tokens,   *)
(* a literal, a run of white space, \s+ or \s* , a captured run of digits  *)
(* written (\d+), or \d{m,n} in a date, or one character that is no        *)
(* line feed, the dot.  In every pattern of the parser the token after a   *)
(* run cannot begin with a character of the run, so a greedy run never     *)
(* gives a character back and the match at an index is the one greedy      *)
(* walk.                                                                   *)
(***************************************************************************)
Lit(s) == [k |-> "lit", s |-> s]

Spaces(min) == [k |-> "s", min |-> min]

Num == [k |-> "d", min |-> 1, max |-> 0]

DigitRun(min, max) == [k |-> "d", min |-> min, max |-> max]

AnyChar == [k |-> "."]

NoMatch == [ok |-> FALSE, end |-> 0, groups |-> <<>>]

\* the end of the run of digits at pos, of at most max digits (0: any number)
RunEnd(text, pos, max) ==
    LET Cut(e) == IF max > 0 /\ e - pos > max THEN pos + max ELSE e
    IN  Cut(DigitsEnd(text, pos))

\* the tokens of pat from the k-th on, at index pos of text, after the groups
RECURSIVE MatchFrom(_, _, _, _, _)
MatchFrom(text, pos, pat, k, groups) ==
    IF k > Len(pat) THEN [ok |-> TRUE, end |-> pos, groups |-> groups]
    ELSE
      LET OnSpaces(e) ==
              IF e - pos >= pat[k].min
              THEN MatchFrom(text, e, pat, k + 1, groups) ELSE NoMatch
          OnDigits(e) ==
              IF e - pos >= pat[k].min
              THEN MatchFrom(text, e, pat, k + 1,
                             Append(groups, SubSeq(text, pos, e - 1)))
              ELSE NoMatch
      IN  CASE pat[k].k = "lit" ->
                 IF OccursAt(text, pos, pat[k].s)
                 THEN MatchFrom(text, pos + Len(pat[k].s), pat, k + 1, groups)
                 ELSE NoMatch
            [] pat[k].k = "s" -> OnSpaces(SpaceEnd(text, pos))
            [] pat[k].k = "d" -> OnDigits(RunEnd(text, pos, pat[k].max))
            [] pat[k].k = "." ->
                 IF At(text, pos) \notin {"", "NL"}
                 THEN MatchFrom(text, pos + 1, pat, k + 1, groups)
                 ELSE NoMatch

\* re.match at index pos
MatchAt(text, pos, pat) == MatchFrom(text, pos, pat, 1, <<>>)

\* re.search: the match at the leftmost index from `from` on that has one
Search(text, from, pat) ==
    LET Leftmost(p) == IF p = 0 THEN NoMatch ELSE MatchAt(text, p, pat)
    IN  Leftmost(FirstOf({x \in from..Len(text) : MatchAt(text, x, pat).ok}))

(***************************************************************************)
(* Values: None, a Python int, or a Python float read from a decimal       *)
(* literal (num / 10^exp).                                                 *)
(***************************************************************************)
None == [kind |-> "None", num |-> 0, exp |-> 0]

IntVal(n) == [kind |-> "int", num |-> n, exp |-> 0]

\* float("a.b")
FloatVal(a, b) == [kind |-> "float", num |-> ToInt(a \o b), exp |-> Len(b)]

(***************************************************************************)
(* Dates: datetime.date as its proleptic Gregorian ordinal, a datetime as  *)
(* the ordinal of its date and the minute of its day.                      *)
(***************************************************************************)
IsLeap(y) == (y % 4 = 0 /\ y % 100 # 0) \/ y % 400 = 0

DaysInMonth(y, m) ==
    IF m = 2 THEN (IF IsLeap(y) THEN 29 ELSE 28)
    ELSE IF m \in {4, 6, 9, 11} THEN 30 ELSE 31

RECURSIVE DaysBeforeMonth(_, _)
DaysBeforeMonth(y, m) ==
    IF m <= 1 THEN 0 ELSE DaysBeforeMonth(y, m - 1) + DaysInMonth(y, m - 1)

\* date(y, m, d).toordinal()
Ordinal(y, m, d) ==
    365 * (y - 1) + ((y - 1) \div 4) - ((y - 1) \div 100) + ((y - 1) \div 400)
        + DaysBeforeMonth(y, m) + d

\* whether datetime(y, m, d) exists
ValidDate(y, m, d) ==
    /\ y >= 1
    /\ m >= 1 /\ m <= 12
    /\ d >= 1 /\ d <= DaysInMonth(y, m)

\* date.max.toordinal(), the ordinal of 9999-12-31
MaxOrdinal == Ordinal(9999, 12, 31)

DateTime(ord, minute) == [ord |-> ord, min |-> minute]

\* datetime < datetime
DtLess(a, b) == a.ord < b.ord \/ (a.ord = b.ord /\ a.min < b.min)

DtLeq(a, b) == a = b \/ DtLess(a, b)

\* datetime + timedelta(minutes = n), n >= 0
DtAddMinutes(a, n) ==
    [ord |-> a.ord + ((a.min + n) \div 1440), min |-> (a.min + n) % 1440]

(***************************************************************************)
(* parse_days: the day pattern (parser.py line 61)                         *)
(*   ----------\n(.*?)\n(.*?)\n\n(.*?)(?=\n----------|\Z)    with DOTALL   *)
(* The lazy date line ends at the first line feed after the separator; the *)
(* lazy second group ends at the first pair of line feeds after it (it     *)
(* spans lines under DOTALL); the content ends before the first line feed  *)
(* that a separator follows, or at the end of the text.                    *)
(***************************************************************************)
NoDayMatch == [ok |-> FALSE, at |-> 0, date_line |-> <<>>, baby_info |-> <<>>,
               day_content |-> <<>>, end |-> 0]

\* the match that starts at the separator at index p
DayMatch(text, p) ==
    LET Found(i, j, k) ==
            [ok |-> TRUE, at |-> p,
             date_line |-> SubSeq(text, p + 2, i - 1),
             baby_info |-> SubSeq(text, i + 1, j - 1),
             day_content |-> SubSeq(text, j + 2, k - 1),
             end |-> k]
        Third(i, j, k) == Found(i, j, IF k = 0 THEN Len(text) + 1 ELSE k)
        Second(i, j) ==
            IF j = 0 THEN NoDayMatch
            ELSE Third(i, j, FindFrom(text, j + 2, <<"NL", "SEP">>))
        First(i) ==
            IF i = 0 THEN NoDayMatch
            ELSE Second(i, FindFrom(text, i + 1, <<"NL", "NL">>))
    IN  IF OccursAt(text, p, <<"SEP", "NL">>)
        THEN First(FindFrom(text, p + 2, <<"NL">>))
        ELSE NoDayMatch

\* re.findall(day_pattern, raw_text, re.DOTALL): the matches from pos on,
\* leftmost first, none overlapping
RECURSIVE DayMatches(_, _)
DayMatches(text, pos) ==
    LET Rest(m) == IF m.ok THEN <<m>> \o DayMatches(text, m.end) ELSE <<>>
        From(p) == IF p = 0 THEN <<>> ELSE Rest(DayMatch(text, p))
    IN  From(FirstOf({x \in pos..Len(text) : DayMatch(text, x).ok}))

\* line 67: (\d{4}/\d{1,2}/\d{1,2})\(.\)
DatePattern ==
    <<DigitRun(4, 4), Lit(<<"/">>), DigitRun(1, 2), Lit(<<"/">>), DigitRun(1, 2),
      Lit(<<"(">>), AnyChar, Lit(<<")">>)>>

\* lines 67-70: re.match on the stripped date line; group 1 is the text before
\* the parenthesis, and strptime reads year, month and day from it
DateMatch(s) ==
    LET Read(m) ==
            IF m.ok
            THEN [ok |-> TRUE, date_str |-> SubSeq(s, 1, m.end - 4),
                  y |-> ToInt(m.groups[1]), m |-> ToInt(m.groups[2]),
                  d |-> ToInt(m.groups[3])]
            ELSE [ok |-> FALSE, date_str |-> <<>>, y |-> 0, m |-> 0, d |-> 0]
    IN  Read(MatchAt(s, 1, DatePattern))

\* line 76: (\d+)<sai>(\d+)<kagetsu>(\d+)<nichi>
AgePattern ==
    <<Num, Lit(<<"sai">>), Num, Lit(<<"kagetsu">>), Num, Lit(<<"nichi">>)>>

\* lines 76-81: the age, (0, 0, 0) when the header carries none
AgeOf(baby_info) ==
    LET Read(m) ==
            IF m.ok
            THEN <<ToInt(m.groups[1]), ToInt(m.groups[2]), ToInt(m.groups[3])>>
            ELSE <<0, 0, 0>>
    IN  Read(Search(baby_info, 1, AgePattern))

(***************************************************************************)
(* _parse_events: the event pattern (parser.py line 125)                   *)
(*   (\d{2}:\d{2})\s+(.*?)\s+(?:\((.*?)\))?\s*                             *)
(* After the time the first \s+ takes the whole run of white space.  The   *)
(* lazy type group then grows until white space follows it, so it ends at  *)
(* the first white space after its start; the second \s+ takes that run    *)
(* (line feeds included), the optional group takes a parenthesis that      *)
(* opens right there and closes on the same line, and \s* the white space  *)
(* after it.  When no white space follows the type up to the end of the    *)
(* text, the first \s+ gives one character back and the type is empty,     *)
(* which needs a run of two; otherwise there is no match at q.             *)
(***************************************************************************)
\* the first index >= i of a white space character, 0 when the text ends first
NextSpace(text, i) == FirstOf({x \in i..Len(text) : IsSpace(text[x])})

\* \((.*?)\) after the parenthesis that opens at index i - 1: the index of the
\* closing parenthesis, 0 without one on the line
CloseParen(text, i) ==
    LET SameLine(c) ==
            IF c # 0 /\ \A x \in i..(c - 1) : text[x] # "NL" THEN c ELSE 0
    IN  SameLine(FindFrom(text, i, <<")">>))

NoEventMatch == [ok |-> FALSE, time |-> <<>>, type |-> <<>>, detail |-> <<>>,
                 end |-> 0]

\* (\d{2}:\d{2})\s at index q
TimeAt(text, q) ==
    /\ IsDigit(At(text, q)) /\ IsDigit(At(text, q + 1))
    /\ At(text, q + 2) = ":"
    /\ IsDigit(At(text, q + 3)) /\ IsDigit(At(text, q + 4))
    /\ IsSpace(At(text, q + 5))

\* the match at index q: s is the end of the first run of white space, e the
\* first white space after s, t the index where the optional group is tried,
\* c the closing parenthesis of the group
EventMatch(text, q) ==
    LET Found(s, e, t, c) ==
            [ok |-> TRUE,
             time |-> SubSeq(text, q, q + 4),
             type |-> IF e # 0 THEN SubSeq(text, s, e - 1) ELSE <<>>,
             detail |-> IF c # 0 THEN SubSeq(text, t + 1, c - 1) ELSE <<>>,
             end |-> IF c # 0 THEN SpaceEnd(text, c + 1) ELSE t]
        Group(s, e, t) ==
            Found(s, e, t, IF At(text, t) = "(" THEN CloseParen(text, t + 1) ELSE 0)
        Type(s, e) ==
            IF e # 0 THEN Group(s, e, SpaceEnd(text, e))
            ELSE IF s - (q + 5) >= 2 THEN Group(s, e, s)
            ELSE NoEventMatch
        Run(s) == Type(s, NextSpace(text, s))
    IN  IF TimeAt(text, q) THEN Run(SpaceEnd(text, q + 5)) ELSE NoEventMatch

\* re.findall(event_pattern, events_content)
RECURSIVE EventMatches(_, _)
EventMatches(text, q) ==
    LET Rest(m) == IF m.ok THEN <<m>> \o EventMatches(text, m.end) ELSE <<>>
        From(p) == IF p = 0 THEN <<>> ELSE Rest(EventMatch(text, p))
    IN  From(FirstOf({x \in q..Len(text) : EventMatch(text, x).ok}))

\* day_content.split("\n\n<bonyu goukei>")[0]: the events region
EventsContent(day_content) ==
    LET Before(k) == IF k = 0 THEN day_content ELSE SubSeq(day_content, 1, k - 1)
    IN  Before(FindFrom(day_content, 1, <<"NL", "NL", "bonyu", "goukei">>))

(***************************************************************************)
(* The time of an event (parser.py lines 129-143).  strptime('%H:%M')      *)
(* accepts hours 0..23 and minutes 0..59; the except branch reduces the    *)
(* hour modulo 24 and calls strptime again, which raises ValueError, not   *)
(* caught, when the minute is 60 or more; adding the days raises           *)
(* OverflowError past date.max.                                            *)
(***************************************************************************)
MutEventTimeSameDay(hour, minute, date_ord) ==
    IF hour <= 23 /\ minute <= 59
    THEN [raised |-> "none", dt |-> DateTime(date_ord, hour * 60 + minute)]
    ELSE IF minute > 59
    THEN [raised |-> "ValueError", dt |-> DateTime(date_ord, 0)]
    ELSE [raised |-> "none", dt |-> DateTime(date_ord, (hour % 24) * 60 + minute)]

\* the datetime of hour:minute on the date
EventTime(hour, minute, date_ord) ==
    IF hour <= 23 /\ minute <= 59
    THEN [raised |-> "none", dt |-> DateTime(date_ord, hour * 60 + minute)]
    ELSE IF minute > 59
    THEN [raised |-> "ValueError", dt |-> DateTime(date_ord, 0)]
    ELSE IF date_ord + (hour \div 24) > MaxOrdinal
    THEN [raised |-> "OverflowError", dt |-> DateTime(date_ord, 0)]
    ELSE [raised |-> "none",
          dt |-> DateTime(date_ord + (hour \div 24), (hour % 24) * 60 + minute)]

(***************************************************************************)
(* The numeric patterns of _parse_events (parser.py lines 149-194), each a *)
(* re.search; a pattern that matches overwrites the value and the unit of  *)
(* the patterns before it.                                                 *)
(***************************************************************************)
NoValue == [value |-> None, unit |-> "None"]

\* line 153: (\d+)ml
MilkPattern == <<Num, Lit(<<"ml">>)>>

\* lines 153-157: milk_match
MilkValue(event_type, prev) ==
    LET Read(m) ==
            IF m.ok THEN [value |-> IntVal(ToInt(m.groups[1])), unit |-> "ml"]
            ELSE prev
    IN  Read(Search(event_type, 1, MilkPattern))

\* line 159: (\d+)<jikan>(\d+)<fun>
SleepPattern == <<Num, Lit(<<"jikan">>), Num, Lit(<<"fun">>)>>

\* lines 159-165: sleep_match, on the detail
SleepValue(event_detail, prev) ==
    LET Read(m) ==
            IF m.ok
            THEN [value |-> IntVal(ToInt(m.groups[1]) * 60 + ToInt(m.groups[2])),
                  unit |-> "minutes"]
            ELSE prev
    IN  Read(Search(event_detail, 1, SleepPattern))

\* (\d+\.\d+)<word>
DecimalPattern(word) == <<Num, Lit(<<".">>), Num, Lit(<<word>>)>>

\* line 168, second alternative: (\d+)g
GramPattern == <<Num, Lit(<<"g">>)>>

\* lines 167-175: weight_match, (\d+\.\d+)kg|(\d+)g: the leftmost index where
\* one of the two matches, kilograms tried first there
WeightValue(event_type, prev) ==
    LET Read(kg, g) ==
            IF kg.ok
            THEN [value |-> FloatVal(kg.groups[1], kg.groups[2]), unit |-> "kg"]
            ELSE IF g.ok
            THEN [value |-> IntVal(ToInt(g.groups[1])), unit |-> "g"]
            ELSE prev
        Leftmost(p) ==
            IF p = 0 THEN prev
            ELSE Read(MatchAt(event_type, p, DecimalPattern("kg")),
                      MatchAt(event_type, p, GramPattern))
    IN  Leftmost(FirstOf({x \in 1..Len(event_type) :
                            \/ MatchAt(event_type, x, DecimalPattern("kg")).ok
                            \/ MatchAt(event_type, x, GramPattern).ok}))

\* lines 177-181 (<word> = cm) and 183-187 (<word> = degC)
DecimalValue(event_type, word, prev) ==
    LET Read(m) ==
            IF m.ok
            THEN [value |-> FloatVal(m.groups[1], m.groups[2]), unit |-> word]
            ELSE prev
    IN  Read(Search(event_type, 1, DecimalPattern(word)))

\* value_map of line 192, as value_map.get(level, 0)
ValueMap(level) ==
    CASE level = <<"goku", "shou">> -> 1
      [] level = <<"shou">> -> 2
      [] level = <<"chuu">> -> 3
      [] level = <<"dai">> -> 4
      [] OTHER -> 0

\* line 190: <haku>\s+(<goku shou>|<shou>|<chuu>|<dai>) at index s: the level,
\* <<>> without a match
VomitAt(text, s) ==
    LET Level(w) ==
            IF w = s + 1 THEN <<>>
            ELSE IF At(text, w) = "goku" /\ At(text, w + 1) = "shou"
            THEN <<"goku", "shou">>
            ELSE IF At(text, w) \in {"shou", "chuu", "dai"} THEN <<At(text, w)>>
            ELSE <<>>
    IN  IF At(text, s) = "haku" THEN Level(SpaceEnd(text, s + 1)) ELSE <<>>

\* lines 189-194: vomit_match
VomitValue(event_type, prev) ==
    LET Leftmost(p) ==
            IF p = 0 THEN prev
            ELSE [value |-> IntVal(ValueMap(VomitAt(event_type, p))),
                  unit |-> "level"]
    IN  Leftmost(FirstOf({x \in 1..Len(event_type) :
                            VomitAt(event_type, x) # <<>>}))

\* lines 149-194: the patterns in their order
ExtractValue(event_type, event_detail) ==
    VomitValue(event_type,
      DecimalValue(event_type, "degC",
        DecimalValue(event_type, "cm",
          WeightValue(event_type,
            SleepValue(event_detail,
              MilkValue(event_type, NoValue))))))

MutCategorizeWeightFirst(event_type) ==
    IF Contains(event_type, <<"okiru">>) THEN "wake"
    ELSE IF Contains(event_type, <<"neru">>) THEN "sleep"
    ELSE IF Contains(event_type, <<"miruku">>) THEN "milk"
    ELSE IF Contains(event_type, <<"bonyu">>) THEN "breastfeed"
    ELSE IF Contains(event_type, <<"oshikko">>) THEN "pee"
    ELSE IF Contains(event_type, <<"unchi">>) THEN "poop"
    ELSE IF Contains(event_type, <<"haku">>) THEN "vomit"
    ELSE IF Contains(event_type, <<"taiju">>) THEN "weight"
    ELSE IF Contains(event_type, <<"ofuro">>) THEN "bath"
    ELSE IF Contains(event_type, <<"shincho">>) THEN "height"
    ELSE IF Contains(event_type, <<"taion">>) THEN "temperature"
    ELSE IF Contains(event_type, <<"byoin">>) THEN "hospital"
    ELSE IF Contains(event_type, <<"yobosesshu">>) THEN "vaccination"
    ELSE IF Contains(event_type, <<"rinyushoku">>) THEN "food"
    ELSE IF Contains(event_type, <<"kusuri">>) THEN "medicine"
    ELSE IF Contains(event_type, <<"kensa">>) \/ Contains(event_type, <<"shochi">>)
    THEN "medical"
    ELSE IF Contains(event_type, <<"shinsatsu">>) THEN "examination"
    ELSE "other"

\* _categorize_event (parser.py lines 212-257)
CategorizeEvent(event_type) ==
    IF Contains(event_type, <<"okiru">>) THEN "wake"
    ELSE IF Contains(event_type, <<"neru">>) THEN "sleep"
    ELSE IF Contains(event_type, <<"miruku">>) THEN "milk"
    ELSE IF Contains(event_type, <<"bonyu">>) THEN "breastfeed"
    ELSE IF Contains(event_type, <<"oshikko">>) THEN "pee"
    ELSE IF Contains(event_type, <<"unchi">>) THEN "poop"
    ELSE IF Contains(event_type, <<"haku">>) THEN "vomit"
    ELSE IF Contains(event_type, <<"ofuro">>) THEN "bath"
    ELSE IF Contains(event_type, <<"taiju">>) THEN "weight"
    ELSE IF Contains(event_type, <<"shincho">>) THEN "height"
    ELSE IF Contains(event_type, <<"taion">>) THEN "temperature"
    ELSE IF Contains(event_type, <<"byoin">>) THEN "hospital"
    ELSE IF Contains(event_type, <<"yobosesshu">>) THEN "vaccination"
    ELSE IF Contains(event_type, <<"rinyushoku">>) THEN "food"
    ELSE IF Contains(event_type, <<"kusuri">>) THEN "medicine"
    ELSE IF Contains(event_type, <<"kensa">>) \/ Contains(event_type, <<"shochi">>)
    THEN "medical"
    ELSE IF Contains(event_type, <<"shinsatsu">>) THEN "examination"
    ELSE "other"

\* lines 128-208: the event of one match, or the exception its time raises
EventOf(m, date_ord) ==
    LET Build(t, event_type, event_detail, v) ==
            [raised |-> t.raised,
             event |-> [datetime |-> t.dt, time |-> m.time, type |-> event_type,
                        detail |-> event_detail,
                        category |-> CategorizeEvent(event_type),
                        value |-> v.value, unit |-> v.unit]]
        Texts(t, event_type, event_detail) ==
            Build(t, event_type, event_detail,
                  ExtractValue(event_type, event_detail))
    IN  Texts(EventTime(ToInt(SubSeq(m.time, 1, 2)), ToInt(SubSeq(m.time, 4, 5)),
                        date_ord),
              Strip(m.type), Strip(m.detail))

\* the for loop of lines 128-208 over the matches from index n on
RECURSIVE EventLoop(_, _, _, _)
EventLoop(matches, n, date_ord, events) ==
    IF n > Len(matches) THEN [raised |-> "none", events |-> events]
    ELSE LET Add(r) ==
                 IF r.raised # "none" THEN [raised |-> r.raised, events |-> events]
                 ELSE EventLoop(matches, n + 1, date_ord, Append(events, r.event))
         IN  Add(EventOf(matches[n], date_ord))

\* _parse_events (parser.py lines 104-210)
ParseEvents(day_content, date_ord) ==
    EventLoop(EventMatches(EventsContent(day_content), 1), 1, date_ord, <<>>)

(***************************************************************************)
(* _parse_daily_summary (parser.py lines 259-295).  The pattern of line    *)
(* 280, searched with DOTALL:                                              *)
(*   <bonyu goukei>.*?<hidari>\s+(\d+)<fun>\s*/\s*<migi>\s+(\d+)<fun>\n    *)
(*   <miruku goukei>\s+(\d+)<kai>\s+(\d+)ml\n                              *)
(*   <suimin goukei>\s+(\d+)<jikan>(\d+)<fun>\n                            *)
(*   <oshikko goukei>\s+(\d+)<kai>\n<unchi goukei>\s+(\d+)<kai>            *)
(***************************************************************************)
\* the pattern from <hidari> on
SummaryTail ==
    <<Lit(<<"hidari">>), Spaces(1), Num, Lit(<<"fun">>), Spaces(0), Lit(<<"/">>),
      Spaces(0), Lit(<<"migi">>), Spaces(1), Num,
      Lit(<<"fun", "NL", "miruku", "goukei">>), Spaces(1), Num, Lit(<<"kai">>),
      Spaces(1), Num,
      Lit(<<"ml", "NL", "suimin", "goukei">>), Spaces(1), Num, Lit(<<"jikan">>),
      Num,
      Lit(<<"fun", "NL", "oshikko", "goukei">>), Spaces(1), Num,
      Lit(<<"kai", "NL", "unchi", "goukei">>), Spaces(1), Num, Lit(<<"kai">>)>>

\* re.search: a <hidari> that completes a later <bonyu goukei> to a match
\* completes the first one too, so the match starts at the first
\* <bonyu goukei> and the lazy .*? ends at the first <hidari> after it from
\* which the rest matches
SummarySearch(text) ==
    LET First(a) == IF a = 0 THEN NoMatch ELSE Search(text, a + 2, SummaryTail)
    IN  First(FindFrom(text, 1, <<"bonyu", "goukei">>))

ZeroSummary ==
    [breastfeed_left |-> 0, breastfeed_right |-> 0, milk_count |-> 0,
     milk_amount |-> 0, sleep_minutes |-> 0, pee_count |-> 0, poop_count |-> 0]

MutSummarySwapped(g) ==
    [breastfeed_left |-> ToInt(g[1]),
     breastfeed_right |-> ToInt(g[2]),
     milk_count |-> ToInt(g[4]),
     milk_amount |-> ToInt(g[3]),
     sleep_minutes |-> ToInt(g[5]) * 60 + ToInt(g[6]),
     pee_count |-> ToInt(g[7]),
     poop_count |-> ToInt(g[8])]

\* lines 282-293: the summary fields from the eight groups
SummaryFields(g) ==
    [breastfeed_left |-> ToInt(g[1]),
     breastfeed_right |-> ToInt(g[2]),
     milk_count |-> ToInt(g[3]),
     milk_amount |-> ToInt(g[4]),
     sleep_minutes |-> ToInt(g[5]) * 60 + ToInt(g[6]),
     pee_count |-> ToInt(g[7]),
     poop_count |-> ToInt(g[8])]

ParseDailySummary(day_content) ==
    LET Read(m) == IF m.ok THEN SummaryFields(m.groups) ELSE ZeroSummary
    IN  Read(SummarySearch(day_content))

(***************************************************************************)
(* parse_days (parser.py lines 50-102).  A date header that matches the    *)
(* pattern of line 67 but names no date makes strptime raise ValueError,   *)
(* which parse_days does not catch; so does an event time of               *)
(* _parse_events.  days_data then holds the days appended so far.          *)
(* The field `at` of a day is not in the code: it is the index of the      *)
(* separator the day was read from, kept to state the properties.          *)
(***************************************************************************)
\* lines 85-98: day_data
DayData(m, date_match, age, events) ==
    [date |-> Ordinal(date_match.y, date_match.m, date_match.d),
     date_str |-> date_match.date_str,
     baby_name |-> Strip(m.baby_info),
     age_years |-> age[1],
     age_months |-> age[2],
     age_days |-> age[3],
     events |-> events,
     summary |-> ParseDailySummary(m.day_content),
     at |-> m.at]

\* the for loop of lines 65-99 over the matches from index n on
RECURSIVE DayLoop(_, _, _)
DayLoop(matches, n, days) ==
    IF n > Len(matches) THEN [raised |-> "none", days |-> days]
    ELSE
      LET Add(date_match, ev) ==
              IF ev.raised # "none" THEN [raised |-> ev.raised, days |-> days]
              ELSE DayLoop(matches, n + 1,
                     Append(days, DayData(matches[n], date_match,
                                          AgeOf(matches[n].baby_info), ev.events)))
          Dated(date_match) ==
              IF ~date_match.ok THEN DayLoop(matches, n + 1, days)
              ELSE IF ~ValidDate(date_match.y, date_match.m, date_match.d)
              THEN [raised |-> "ValueError", days |-> days]
              ELSE Add(date_match,
                       ParseEvents(matches[n].day_content,
                                   Ordinal(date_match.y, date_match.m, date_match.d)))
      IN  Dated(DateMatch(Strip(matches[n].date_line)))

\* lines 60-102 on a text
ParseDaysOf(text) == DayLoop(DayMatches(text, 1), 1, <<>>)

(***************************************************************************)
(* Data frames: a frame is the sequence of its rows, with the names of     *)
(* its columns and the type of its column `date`; NoFrame is None.  A      *)
(* frame built from no row has no column.  The parser writes               *)
(* datetime.date objects into `date`, which pandas keeps as objects; a     *)
(* frame read from a CSV file has datetime64 there.  A missing value       *)
(* (None, NaN) of a column is the value None.                              *)
(***************************************************************************)
NoFrame == [none |-> TRUE, rows |-> <<>>, columns |-> {}, dates |-> "object"]

\* pd.DataFrame(rows) (lines 327, 361, 429)
Frame(rows) ==
    [none |-> FALSE, rows |-> rows,
     columns |-> IF rows = <<>> THEN {} ELSE DOMAIN rows[1],
     dates |-> "object"]

RECURSIVE Pow10(_)
Pow10(n) == IF n <= 0 THEN 1 ELSE 10 * Pow10(n - 1)

\* a + b of two numbers; a float is kept as its decimal
AddVal(a, b) ==
    IF a.kind = "int" /\ b.kind = "int" THEN IntVal(a.num + b.num)
    ELSE LET Scaled(e) ==
                 [kind |-> "float",
                  num |-> a.num * Pow10(e - a.exp) + b.num * Pow10(e - b.exp),
                  exp |-> e]
         IN  Scaled(IF a.exp >= b.exp THEN a.exp ELSE b.exp)

\* sum(values)
RECURSIVE SumValues(_)
SumValues(values) ==
    IF values = <<>> THEN IntVal(0)
    ELSE AddVal(SumValues(SubSeq(values, 1, Len(values) - 1)), values[Len(values)])

MutEventRowsCalendarDate(day) ==
    [i \in 1..Len(day.events) |->
        [date |-> day.events[i].datetime.ord,
         datetime |-> day.events[i].datetime,
         time |-> day.events[i].time,
         category |-> day.events[i].category,
         type |-> day.events[i].type,
         detail |-> day.events[i].detail,
         value |-> day.events[i].value,
         unit |-> day.events[i].unit,
         baby_name |-> day.baby_name,
         age_years |-> day.age_years,
         age_months |-> day.age_months,
         age_days |-> day.age_days]]

\* lines 311-324: the rows of one day's events
EventRows(day) ==
    [i \in 1..Len(day.events) |->
        [date |-> day.date,
         datetime |-> day.events[i].datetime,
         time |-> day.events[i].time,
         category |-> day.events[i].category,
         type |-> day.events[i].type,
         detail |-> day.events[i].detail,
         value |-> day.events[i].value,
         unit |-> day.events[i].unit,
         baby_name |-> day.baby_name,
         age_years |-> day.age_years,
         age_months |-> day.age_months,
         age_days |-> day.age_days]]

\* lines 307-326: the rows of all days, in the order of days_data
RECURSIVE AllEventRows(_)
AllEventRows(days) ==
    IF days = <<>> THEN <<>>
    ELSE EventRows(days[1]) \o AllEventRows(Tail(days))

IsVomit(e) == e.category = "vomit"

HasValue(e) == e.value # None

\* line 352: the day's events of category vomit
VomitEvents(day) == SelectSeq(day.events, IsVomit)

\* line 356: the values, None left out, of the day's vomit events
VomitLevels(day) ==
    [i \in 1..Len(SelectSeq(VomitEvents(day), HasValue)) |->
        SelectSeq(VomitEvents(day), HasValue)[i].value]

\* lines 342-359: the summary row of one day
SummaryRow(day) ==
    [date |-> day.date,
     baby_name |-> day.baby_name,
     age_years |-> day.age_years,
     age_months |-> day.age_months,
     age_days |-> day.age_days,
     breastfeed_left |-> day.summary.breastfeed_left,
     breastfeed_right |-> day.summary.breastfeed_right,
     milk_count |-> day.summary.milk_count,
     milk_amount |-> day.summary.milk_amount,
     sleep_minutes |-> day.summary.sleep_minutes,
     pee_count |-> day.summary.pee_count,
     poop_count |-> day.summary.poop_count,
     vomit_count |-> Len(VomitEvents(day)),
     vomit_level_sum |-> SumValues(VomitLevels(day)),
     at |-> day.at]

IsGrowth(e, category) == e.category = category /\ e.value # None

\* lines 378-427: the growth rows of one day for one category
GrowthRowsOf(day, category) ==
    LET Rows(ev) ==
            [i \in 1..Len(ev) |->
                [date |-> day.date,
                 datetime |-> ev[i].datetime,
                 type |-> category,
                 value |-> ev[i].value,
                 unit |-> ev[i].unit,
                 baby_name |-> day.baby_name,
                 age_years |-> day.age_years,
                 age_months |-> day.age_months,
                 age_days |-> day.age_days]]
    IN  Rows(SelectSeq(day.events, LAMBDA e : IsGrowth(e, category)))

\* lines 374-427: of each day its weights, then its heights, then its
\* temperatures
RECURSIVE AllGrowthRows(_)
AllGrowthRows(days) ==
    IF days = <<>> THEN <<>>
    ELSE GrowthRowsOf(days[1], "weight") \o GrowthRowsOf(days[1], "height")
            \o GrowthRowsOf(days[1], "temperature") \o AllGrowthRows(Tail(days))

(***************************************************************************)
(* The methods of BabyLogParser on the parser object `self`, a record of   *)
(* its fields.  Each gives the object after the call and the exception     *)
(* the call ended with.                                                    *)
(***************************************************************************)
\* the file at file_path: whether it can be read, and its text
File(ok, text) == [ok |-> ok, text |-> text]

\* BabyLogParser(file_path) (lines 21-33)
NewParser(file) ==
    [file |-> file, raw_text |-> <<>>, days_data |-> <<>>, events_df |-> NoFrame,
     daily_summary_df |-> NoFrame, growth_df |-> NoFrame]

Self == [file |-> File(file_ok, file_text), raw_text |-> raw_text,
         days_data |-> days_data, events_df |-> events_df,
         daily_summary_df |-> daily_summary_df, growth_df |-> growth_df]

Returned(self) == [self |-> self, raised |-> "none"]

\* load_file (lines 35-48): a file that cannot be read leaves raw_text as it is
LoadFileOn(self) ==
    IF self.file.ok THEN [self EXCEPT !.raw_text = self.file.text] ELSE self

MutParseDaysOnAppending(self) ==
    LET Parsed(loaded, r) ==
            [self |-> [loaded EXCEPT !.days_data = loaded.days_data \o r.days],
             raised |-> r.raised]
        Loaded(loaded) == Parsed(loaded, ParseDaysOf(loaded.raw_text))
    IN  Loaded(IF self.raw_text = <<>> THEN LoadFileOn(self) ELSE self)

\* parse_days (lines 50-102)
ParseDaysOn(self) ==
    LET Parsed(loaded, r) ==
            [self |-> [loaded EXCEPT !.days_data = r.days], raised |-> r.raised]
        Loaded(loaded) == Parsed(loaded, ParseDaysOf(loaded.raw_text))
    IN  Loaded(IF self.raw_text = <<>> THEN LoadFileOn(self) ELSE self)

\* `if not self.days_data: self.parse_days()` (lines 304, 337, 371)
EnsureDays(self) ==
    IF self.days_data = <<>> THEN ParseDaysOn(self) ELSE Returned(self)

\* create_events_dataframe (lines 297-328)
CreateEventsOn(self) ==
    LET Build(p) ==
            IF p.raised # "none" THEN p
            ELSE Returned([p.self EXCEPT
                             !.events_df = Frame(AllEventRows(p.self.days_data))])
    IN  Build(EnsureDays(self))

\* create_daily_summary_dataframe (lines 330-362)
CreateDailySummaryOn(self) ==
    LET Build(p) ==
            IF p.raised # "none" THEN p
            ELSE Returned([p.self EXCEPT
                             !.daily_summary_df =
                                Frame([i \in 1..Len(p.self.days_data) |->
                                          SummaryRow(p.self.days_data[i])])])
    IN  Build(EnsureDays(self))

\* create_growth_dataframe (lines 364-430)
CreateGrowthOn(self) ==
    LET Build(p) ==
            IF p.raised # "none" THEN p
            ELSE Returned([p.self EXCEPT
                             !.growth_df = Frame(AllGrowthRows(p.self.days_data))])
    IN  Build(EnsureDays(self))

\* parse_all (lines 432-445)
ParseAllOn(self) ==
    LET Growth(c) == IF c.raised # "none" THEN c ELSE CreateGrowthOn(c.self)
        Summary(b) ==
            Growth(IF b.raised # "none" THEN b ELSE CreateDailySummaryOn(b.self))
        Events(a) ==
            Summary(IF a.raised # "none" THEN a ELSE CreateEventsOn(a.self))
    IN  Events(ParseDaysOn(LoadFileOn(self)))

\* the parser object after a call
Becomes(result, call) ==
    \E r \in {result} :
        /\ raw_text' = r.self.raw_text
        /\ days_data' = r.self.days_data
        /\ events_df' = r.self.events_df
        /\ daily_summary_df' = r.self.daily_summary_df
        /\ growth_df' = r.self.growth_df
        /\ raised' = r.raised
        /\ last_call' = call
        /\ UNCHANGED <<doc, file_text, file_ok, analyzer_vars, api_vars>>

LoadFile == Becomes(Returned(LoadFileOn(Self)), "load_file")

ParseDays == Becomes(ParseDaysOn(Self), "parse_days")

CreateEventsDataframe == Becomes(CreateEventsOn(Self), "create_events_dataframe")

CreateDailySummaryDataframe ==
    Becomes(CreateDailySummaryOn(Self), "create_daily_summary_dataframe")

CreateGrowthDataframe == Becomes(CreateGrowthOn(Self), "create_growth_dataframe")

ParseAll == Becomes(ParseAllOn(Self), "parse_all")

(***************************************************************************)
(* The input: a document is a sequence of day-blocks, each written as      *)
(*   separator, date header, subject header, blank line, event lines,      *)
(*   blank line and summary lines.                                         *)
(* A block records what was written: `sep` and `blank` tell whether the    *)
(* separator line and the blank line after the headers are there, `eol`    *)
(* whether the block's last line ends with a line feed.                    *)
(***************************************************************************)
\* the decimal digits of n >= 0
RECURSIVE DigitsOf(_)
DigitsOf(n) ==
    LET d == <<"0", "1", "2", "3", "4", "5", "6", "7", "8", "9">>[(n % 10) + 1]
    IN  IF n < 10 THEN <<d>> ELSE Append(DigitsOf(n \div 10), d)

\* hh:mm
TimeText(hh, mm) ==
    (IF hh < 10 THEN <<"0">> ELSE <<>>) \o DigitsOf(hh) \o <<":">>
        \o (IF mm < 10 THEN <<"0">> ELSE <<>>) \o DigitsOf(mm)

\* the words of a type text, one space between two words
RECURSIVE JoinWords(_)
JoinWords(words) ==
    IF words = <<>> THEN <<>>
    ELSE IF Len(words) = 1 THEN words[1]
    ELSE words[1] \o <<" ">> \o JoinWords(Tail(words))

\* an event line: `HH:MM T` or `HH:MM T (D)`; detail <<>> is no detail
LineText(line) ==
    TimeText(line.hh, line.mm) \o <<" ">> \o JoinWords(line.words)
        \o (IF line.detail = <<>> THEN <<>>
            ELSE <<" ", "(">> \o line.detail \o <<")">>)

RECURSIVE JoinLines(_)
JoinLines(lines) ==
    IF lines = <<>> THEN <<>>
    ELSE IF Len(lines) = 1 THEN LineText(lines[1])
    ELSE LineText(lines[1]) \o <<"NL">> \o JoinLines(Tail(lines))

\* the summary lines written from the eight integers n; a summary that
\* deviates from the template has lost the `ml` of its second line
SummaryText(sm) ==
    <<"bonyu", "goukei", " ", "hidari", " ">> \o DigitsOf(sm.n[1]) \o <<"fun">>
        \o <<" ", "/", " ", "migi", " ">> \o DigitsOf(sm.n[2]) \o <<"fun", "NL">>
        \o <<"miruku", "goukei", " ">> \o DigitsOf(sm.n[3]) \o <<"kai", " ">>
        \o DigitsOf(sm.n[4]) \o (IF sm.kind = "template" THEN <<"ml">> ELSE <<>>)
        \o <<"NL", "suimin", "goukei", " ">> \o DigitsOf(sm.n[5]) \o <<"jikan">>
        \o DigitsOf(sm.n[6]) \o <<"fun", "NL">>
        \o <<"oshikko", "goukei", " ">> \o DigitsOf(sm.n[7]) \o <<"kai", "NL">>
        \o <<"unchi", "goukei", " ">> \o DigitsOf(sm.n[8]) \o <<"kai">>

BlockText(b) ==
    (IF b.sep THEN <<"SEP", "NL">> ELSE <<>>)
        \o b.date \o <<"NL">> \o b.baby \o <<"NL">>
        \o (IF b.blank THEN <<"NL">> ELSE <<>>)
        \o JoinLines(b.lines)
        \o (IF b.summary.kind = "none" THEN <<>>
            ELSE (IF b.lines = <<>> THEN <<>> ELSE <<"NL", "NL">>)
                    \o SummaryText(b.summary))
        \o (IF b.eol THEN <<"NL">> ELSE <<>>)

RECURSIVE DocText(_)
DocText(blocks) ==
    IF blocks = <<>> THEN <<>>
    ELSE BlockText(blocks[1]) \o DocText(Tail(blocks))

\* the index in the document's text of the first character of block i
BlockStart(blocks, i) == Len(DocText(SubSeq(blocks, 1, i - 1))) + 1

\* date headers: two dates, a header of the right shape that names no date,
\* and a line that is no date header
DateText(y, m, d) ==
    DigitsOf(y) \o <<"/">> \o DigitsOf(m) \o <<"/">> \o DigitsOf(d)
        \o <<"(", "W", ")">>

NotADate == <<"x", "x">>

\* subject headers, with and without the age
BabyWithAge == <<"x", " ", "(", "0", "sai", "2", "kagetsu", "5", "nichi", ")">>

BabyPlain == <<"x">>

NoSummary == [kind |-> "none", n |-> <<0, 0, 0, 0, 0, 0, 0, 0>>]

SummaryA == [kind |-> "template", n |-> <<10, 5, 3, 300, 11, 30, 6, 2>>]

SummaryB == [kind |-> "template", n |-> <<0, 7, 1, 120, 9, 4, 8, 12>>]

SummaryDeviating == [kind |-> "deviating", n |-> <<10, 5, 3, 300, 11, 30, 6, 2>>]

Line(hh, mm, words, detail) ==
    [hh |-> hh, mm |-> mm, words |-> words, detail |-> detail]

\* type texts
Milk100 == << <<"miruku">>, <<"1", "0", "0", "ml">> >>

Weight67 == << <<"taiju">>, <<"6", ".", "7", "kg">> >>

Vomit(level) == << <<"haku">>, level >>

Duration90 == <<"1", "jikan", "3", "0", "fun">>

\* the sequences over S of length at most n
SeqsUpTo(S, n) == UNION {[1..k -> S] : k \in 0..n}

(***************************************************************************)
(* BabyLogAnalyzer (analyzer.py).  A method gives what it returned, or     *)
(* the exception it ended with.  Of a statistic only what the properties   *)
(* need is kept: whether it is a number or NaN, and the number itself      *)
(* where it is a count, a rate or a measurement.  Floating-point rounding  *)
(* is not modelled: a measurement is its decimal.                          *)
(*                                                                         *)
(* stats.pearsonr raises ValueError for series shorter than two and gives  *)
(* NaN for a constant series.  A frame built from no row has no column,    *)
(* so reading one raises KeyError.  The accessor .dt of a column of        *)
(* datetime.date objects raises AttributeError.                            *)
(***************************************************************************)
NoResult == [kind |-> "none"]

\* the empty dictionary {}
EmptyResult == [kind |-> "empty"]

\* a key the dictionary does not have
Absent == [kind |-> "absent"]

Raises(exception) == [raised |-> exception, result |-> NoResult]

Returns(result) == [raised |-> "none", result |-> result]

\* self.events_df[self.events_df['category'] == category] (lines 261, 269,
\* 309, 310, 356, 359)
OfCategory(rows, category) == SelectSeq(rows, LAMBDA e : e.category = category)

\* a statistic of n values that needs at least `least` of them
Stat(n, least) == IF n >= least THEN "number" ELSE "nan"

\* Series.describe().to_dict() of a numeric series with n values that are
\* not NaN (lines 329-340, 369, 380-398, 484-490)
Describe(n) ==
    [kind |-> "describe", count |-> n, mean |-> Stat(n, 1), std |-> Stat(n, 2),
     min |-> Stat(n, 1), q25 |-> Stat(n, 1), q50 |-> Stat(n, 1),
     q75 |-> Stat(n, 1), max |-> Stat(n, 1)]

\* Series.describe().to_dict() of an empty series of objects (line 369)
DescribeObject ==
    [kind |-> "describe_object", count |-> 0, unique |-> 0, top |-> "nan",
     freq |-> "nan"]

\* the type of the column `value`: None among numbers is NaN in a column of
\* floats, a column of nothing but None is a column of objects; read_csv
\* gives floats
ValueDtype(frame) ==
    IF frame.dates = "datetime64" \/ \E i \in 1..Len(frame.rows) : HasValue(frame.rows[i])
    THEN "float64" ELSE "object"

\* line 271: time_windows
TimeWindows == {30, 60, 120}

IsConstant(xs) == \A i \in 1..Len(xs) : xs[i] = xs[1]

Pearson(xs, ys) == IF IsConstant(xs) \/ IsConstant(ys) THEN "nan" ELSE "number"

Column(rows, Field(_)) == [i \in 1..Len(rows) |-> Field(rows[i])]

MutVomitAfterMilkClosed(vomit_events, milk_time, window) ==
    SelectSeq(vomit_events,
              LAMBDA v : /\ DtLeq(milk_time, v.datetime)
                         /\ DtLeq(v.datetime, DtAddMinutes(milk_time, window)))

\* lines 280-285: the vomit events in the window after a milk event
VomitAfterMilk(vomit_events, milk_time, window) ==
    SelectSeq(vomit_events,
              LAMBDA v : /\ DtLess(milk_time, v.datetime)
                         /\ DtLeq(v.datetime, DtAddMinutes(milk_time, window)))

MutFollowedCountOfVomits(milk_events, vomit_events, window) ==
    Len(SelectSeq(vomit_events,
                  LAMBDA v : \E i \in 1..Len(milk_events) :
                      /\ DtLess(milk_events[i].datetime, v.datetime)
                      /\ DtLeq(v.datetime,
                               DtAddMinutes(milk_events[i].datetime, window))))

\* lines 272-288: the number of milk events a vomit event follows in the window
FollowedCount(milk_events, vomit_events, window) ==
    Len(SelectSeq(milk_events,
                  LAMBDA m : Len(VomitAfterMilk(vomit_events, m.datetime, window)) > 0))

\* lines 261-265: the number of vomit events of each hour that has one
HourCounts(vomit_events) ==
    [h \in {vomit_events[i].datetime.min \div 60 : i \in 1..Len(vomit_events)} |->
        Cardinality({i \in 1..Len(vomit_events) :
                        vomit_events[i].datetime.min \div 60 = h})]

\* lines 267-293: the counts of the windows and count / len(milk_events), the
\* rate, as the pair of the two numbers; the rate 0 is <<0, 1>>
MilkFollowedByVomit(milk_events, vomit_events) ==
    [count |-> [w \in TimeWindows |-> FollowedCount(milk_events, vomit_events, w)],
     rate |-> [w \in TimeWindows |->
                  IF Len(milk_events) > 0
                  THEN <<FollowedCount(milk_events, vomit_events, w),
                         Len(milk_events)>>
                  ELSE <<0, 1>>]]

\* lines 216-293: the dictionary `correlations`; lag1_pairs is not a key of
\* it but the rows of daily_df_lag (lines 231-232) the lag-1 correlation is
\* computed over: shift(1) gives each row the milk_amount of the row before
Correlations(rows, d) ==
    [kind |-> "correlations",
     milk_amount_vomit_count |->
         Pearson(Column(d, LAMBDA r : r.milk_amount),
                 Column(d, LAMBDA r : r.vomit_count)),
     sleep_minutes_vomit_count |->
         Pearson(Column(d, LAMBDA r : r.sleep_minutes),
                 Column(d, LAMBDA r : r.vomit_count)),
     milk_amount_lag1_vomit_count |->
         Pearson(SubSeq(Column(d, LAMBDA r : r.milk_amount), 1, Len(d) - 1),
                 Tail(Column(d, LAMBDA r : r.vomit_count))),
     lag1_pairs |->
         [i \in 1..(Len(d) - 1) |->
             [date |-> d[i + 1].date, milk_amount_lag1 |-> d[i].milk_amount,
              vomit_count |-> d[i + 1].vomit_count]],
     milk_count_vomit_count |->
         Pearson(Column(d, LAMBDA r : r.milk_count),
                 Column(d, LAMBDA r : r.vomit_count)),
     pee_count_vomit_count |->
         Pearson(Column(d, LAMBDA r : r.pee_count),
                 Column(d, LAMBDA r : r.vomit_count)),
     poop_count_vomit_count |->
         Pearson(Column(d, LAMBDA r : r.poop_count),
                 Column(d, LAMBDA r : r.vomit_count)),
     vomit_hour_distribution |-> HourCounts(SelectSeq(rows, IsVomit)),
     milk_followed_by_vomit |->
         MilkFollowedByVomit(SelectSeq(rows, LAMBDA e : e.category = "milk"),
                             SelectSeq(rows, IsVomit))]

\* line 231: daily_df with the column milk_amount_lag1, the milk_amount of
\* the row before
WithLag(daily) ==
    [daily EXCEPT
        !.columns = @ \cup {"milk_amount_lag1"},
        !.rows = [i \in 1..Len(daily.rows) |->
                     [c \in DOMAIN daily.rows[i] \cup {"milk_amount_lag1"} |->
                         IF c # "milk_amount_lag1" THEN daily.rows[i][c]
                         ELSE IF i = 1 THEN None
                         ELSE IntVal(daily.rows[i - 1].milk_amount)]]]

\* whether analyze_vomit_correlation gets as far as line 231
ReachesLag(ev, daily) ==
    /\ ~ev.none
    /\ ~daily.none
    /\ "milk_amount" \in daily.columns
    /\ Len(daily.rows) >= 2

\* daily_df when analyze_vomit_correlation ends
VomitDailyWork(ev, daily) == IF ReachesLag(ev, daily) THEN WithLag(daily) ELSE daily

\* lines 262, 318, 321, 362, 373: the frame of the events of a category
\* with the column hour
WithHour(ev) == [ev EXCEPT !.columns = @ \cup {"hour"}]

\* the frame of the events of a category a method adds the column hour to,
\* which it does when there is such an event
EventsWork(ev, category) ==
    IF ~ev.none /\ "category" \in ev.columns /\ OfCategory(ev.rows, category) # <<>>
    THEN WithHour(ev) ELSE ev

MutShared(frame, work) == work

\* a frame of the analyzer after a method has changed `work`, which it made
\* of the frame, or of a selection of its rows or columns, with .copy()
\* (lines 98, 100, 157, 211, 261, 269, 309, 310, 313, 356, 359, 362, 414,
\* 421, 424): the frame is as it was
AfterCopy(frame, work) == frame

\* analyze_vomit_correlation (lines 199-295)
VomitCorrelation(ev, daily) ==
    IF ev.none \/ daily.none THEN Returns(EmptyResult)
    ELSE IF "milk_amount" \notin daily.columns THEN Raises("KeyError")
    ELSE IF Len(daily.rows) < 3 THEN Raises("ValueError")
    ELSE IF "category" \notin ev.columns THEN Raises("KeyError")
    ELSE Returns(Correlations(ev.rows, daily.rows))

\* the analyzer after a call: the frames it holds and what the call gave
Analyzed(call, r, events_work, daily_work, growth_work) ==
    /\ an_call' = call
    /\ an_result' = r.result
    /\ an_raised' = r.raised
    /\ an_events_df' = AfterCopy(an_events_df, events_work)
    /\ an_daily_df' = AfterCopy(an_daily_df, daily_work)
    /\ an_growth_df' = AfterCopy(an_growth_df, growth_work)
    /\ UNCHANGED <<doc, file_text, file_ok, parser_vars, api_vars>>

AnalyzeVomitCorrelation ==
    LET Call(r) ==
            Analyzed([name |-> "analyze_vomit_correlation"], r,
                     IF r.raised = "none" /\ r.result.kind # "empty"
                     THEN EventsWork(an_events_df, "vomit") ELSE an_events_df,
                     VomitDailyWork(an_events_df, an_daily_df),
                     an_growth_df)
    IN  Call(VomitCorrelation(an_events_df, an_daily_df))

\* BabyLogAnalyzer(events_df, daily_summary_df, growth_df) on what parse_all
\* returned (app.py lines 351-357)
NewAnalyzer ==
    /\ last_call = "parse_all"
    /\ raised = "none"
    /\ an_events_df' = events_df
    /\ an_daily_df' = daily_summary_df
    /\ an_growth_df' = growth_df
    /\ an_call' = [name |-> "__init__"]
    /\ an_result' = NoResult
    /\ an_raised' = "none"
    /\ UNCHANGED <<doc, file_text, file_ok, parser_vars, api_vars>>

(***************************************************************************)
(* analyze_sleep_patterns (analyzer.py lines 297-342).                     *)
(***************************************************************************)
\* the label of row i of a frame with a RangeIndex, and the label a date
\* is in the index of a groupby over dates
RowLabel(i) == [kind |-> "row", v |-> i - 1]

DateLabel(ord) == [kind |-> "date", v |-> ord]

\* line 337: wake_events.groupby(wake_events['date'].dt.date).size(), the
\* series of the number of wake events of each date that has one
WakeCounts(wake_events) ==
    [k \in {DateLabel(wake_events[i].date) : i \in 1..Len(wake_events)} |->
        IntVal(Cardinality({i \in 1..Len(wake_events) :
                               DateLabel(wake_events[i].date) = k}))]

\* line 337: daily_sleep['wake_count'] = series; the assignment aligns the
\* series with the index of daily_sleep, and a label of daily_sleep the
\* series does not have gets NaN
AlignedTo(series, n) ==
    [i \in 1..n |->
        IF RowLabel(i) \in DOMAIN series THEN series[RowLabel(i)] ELSE None]

\* line 338: wake_count / (sleep_hours + 0.001) with sleep_hours =
\* sleep_minutes / 60, as the fraction num / den
FragmentationOf(wake_count, sleep_minutes) ==
    IF wake_count = None THEN None
    ELSE [kind |-> "ratio", num |-> wake_count.num * 60000,
          den |-> sleep_minutes * 1000 + 60]

\* lines 313-338: daily_sleep['sleep_fragmentation']
SleepFragmentation(wake_events, daily_rows) ==
    LET Of(wake_count) ==
            [i \in 1..Len(daily_rows) |->
                FragmentationOf(wake_count[i], daily_rows[i].sleep_minutes)]
    IN  Of(AlignedTo(WakeCounts(wake_events), Len(daily_rows)))

\* the number of values of a series that are not NaN
CountValues(series) == Cardinality({i \in 1..Len(series) : series[i] # None})

\* lines 308-340: the dictionary sleep_analysis; `fragmentation` is not a
\* key of it but the column daily_sleep['sleep_fragmentation'] it is made of
SleepAnalysis(rows, daily_rows) ==
    LET Made(sleep_events, wake_events, fragmentation) ==
            [kind |-> "sleep",
             daily_sleep_minutes |-> Describe(Len(daily_rows)),
             daily_sleep_hours |-> Describe(Len(daily_rows)),
             sleep_start_distribution |-> HourCounts(sleep_events),
             wake_time_distribution |-> HourCounts(wake_events),
             sleep_duration_minutes |->
                 IF Len(SelectSeq(sleep_events, HasValue)) > 0
                 THEN Describe(Len(SelectSeq(sleep_events, HasValue)))
                 ELSE EmptyResult,
             sleep_fragmentation |-> Describe(CountValues(fragmentation)),
             fragmentation |-> fragmentation]
        Of(sleep_events, wake_events) ==
            Made(sleep_events, wake_events,
                 SleepFragmentation(wake_events, daily_rows))
    IN  Of(OfCategory(rows, "sleep"), OfCategory(rows, "wake"))

\* analyze_sleep_patterns (lines 297-342)
SleepPatterns(ev, daily) ==
    IF ev.none THEN Returns(EmptyResult)
    ELSE IF "category" \notin ev.columns THEN Raises("KeyError")
    ELSE IF daily.none THEN Raises("TypeError")
    ELSE IF ~({"date", "sleep_minutes"} \subseteq daily.columns) THEN Raises("KeyError")
    ELSE IF ev.dates = "object" THEN Raises("AttributeError")
    ELSE Returns(SleepAnalysis(ev.rows, daily.rows))

(***************************************************************************)
(* analyze_feeding_patterns (analyzer.py lines 344-400).                   *)
(***************************************************************************)
\* rows in the order of their datetime, rows of one datetime in their order
RECURSIVE SortedByDatetime(_)
SortedByDatetime(rows) ==
    IF rows = <<>> THEN <<>>
    ELSE LET Insert(sorted, r) ==
                 SelectSeq(sorted, LAMBDA x : DtLeq(x.datetime, r.datetime))
                    \o <<r>>
                    \o SelectSeq(sorted, LAMBDA x : ~DtLeq(x.datetime, r.datetime))
         IN  Insert(SortedByDatetime(SubSeq(rows, 1, Len(rows) - 1)), rows[Len(rows)])

\* lines 389-396: the number of milk events followed, in the order of time,
\* by a milk event of the same day
ValidIntervals(sorted) ==
    Cardinality({i \in 1..(Len(sorted) - 1) :
                    sorted[i].datetime.ord = sorted[i + 1].datetime.ord})

\* lines 355-398: the dictionary feeding_analysis
FeedingAnalysis(ev, daily_rows) ==
    LET Of(milk_events, food_events) ==
            [kind |-> "feeding",
             daily_milk_amount |-> Describe(Len(daily_rows)),
             daily_milk_count |-> Describe(Len(daily_rows)),
             milk_time_distribution |-> HourCounts(milk_events),
             milk_amount_distribution |->
                 IF ValueDtype(ev) = "object" THEN DescribeObject
                 ELSE Describe(Len(SelectSeq(milk_events, HasValue))),
             food_time_distribution |->
                 IF Len(food_events) > 0 THEN HourCounts(food_events)
                 ELSE EmptyResult,
             milk_interval_minutes |->
                 IF Len(milk_events) <= 1 THEN Absent
                 ELSE IF ValidIntervals(SortedByDatetime(milk_events)) > 0
                 THEN Describe(ValidIntervals(SortedByDatetime(milk_events)))
                 ELSE EmptyResult]
    IN  Of(OfCategory(ev.rows, "milk"), OfCategory(ev.rows, "food"))

\* analyze_feeding_patterns (lines 344-400)
FeedingPatterns(ev, daily) ==
    IF ev.none \/ daily.none THEN Returns(EmptyResult)
    ELSE IF "category" \notin ev.columns THEN Raises("KeyError")
    ELSE IF ~({"date", "milk_amount", "milk_count"} \subseteq daily.columns)
    THEN Raises("KeyError")
    ELSE Returns(FeedingAnalysis(ev, daily.rows))

(***************************************************************************)
(* analyze_growth (analyzer.py lines 402-466).                             *)
(***************************************************************************)
\* a < b of two numbers
DecLess(a, b) == a.num * Pow10(b.exp) < b.num * Pow10(a.exp)

\* a - b of two numbers
DecSub(a, b) == AddVal(a, [b EXCEPT !.num = 0 - b.num])

\* self.growth_df[self.growth_df['type'] == type] (lines 414, 421, 424)
OfType(rows, type) == SelectSeq(rows, LAMBDA r : r.type = type)

MutRelabelOnly(r) == [r EXCEPT !.unit = "kg"]

\* lines 417-418 on one record: a value in g divided by 1000, the unit kg
ToKg(r) ==
    [r EXCEPT !.value = IF r.unit = "g"
                        THEN [kind |-> "float", num |-> r.value.num,
                              exp |-> r.value.exp + 3]
                        ELSE r.value,
              !.unit = "kg"]

\* lines 414-418: weight_data
WeightData(rows) ==
    LET Converted(w) == [i \in 1..Len(w) |-> ToKg(w[i])]
    IN  Converted(OfType(rows, "weight"))

\* sort_values('date') (lines 431, 443): rows in the order of their date,
\* rows of one date in their order
RECURSIVE SortedByDate(_)
SortedByDate(rows) ==
    IF rows = <<>> THEN <<>>
    ELSE LET Insert(sorted, r) ==
                 SelectSeq(sorted, LAMBDA x : x.date <= r.date) \o <<r>>
                    \o SelectSeq(sorted, LAMBDA x : x.date > r.date)
         IN  Insert(SortedByDate(SubSeq(rows, 1, Len(rows) - 1)), rows[Len(rows)])

\* Series.min() and Series.max() of the values of rows, of which there is one
MinValue(rows) ==
    rows[CHOOSE i \in 1..Len(rows) :
            \A j \in 1..Len(rows) : ~DecLess(rows[j].value, rows[i].value)].value

MaxValue(rows) ==
    rows[CHOOSE i \in 1..Len(rows) :
            \A j \in 1..Len(rows) : ~DecLess(rows[i].value, rows[j].value)].value

\* [['date', 'value']].values.tolist() (lines 438, 448, 459)
DateValues(rows) == [i \in 1..Len(rows) |-> [date |-> rows[i].date, value |-> rows[i].value]]

\* lines 430-439: growth_analysis['weight_kg']
WeightKg(weight_data) ==
    LET Of(sorted) ==
            [first |-> sorted[1].value,
             last |-> sorted[Len(sorted)].value,
             min |-> MinValue(sorted),
             max |-> MaxValue(sorted),
             change |-> DecSub(sorted[Len(sorted)].value, sorted[1].value),
             data |-> DateValues(sorted)]
    IN  IF weight_data = <<>> THEN Absent ELSE Of(SortedByDate(weight_data))

\* lines 442-449: growth_analysis['height_cm']
HeightCm(height_data) ==
    LET Of(sorted) ==
            [first |-> sorted[1].value,
             last |-> sorted[Len(sorted)].value,
             change |-> DecSub(sorted[Len(sorted)].value, sorted[1].value),
             data |-> DateValues(sorted)]
    IN  IF height_data = <<>> THEN Absent ELSE Of(SortedByDate(height_data))

\* lines 452-460: growth_analysis['temperature_celsius']
TemperatureCelsius(temp_data) ==
    IF temp_data = <<>> THEN Absent
    ELSE [min |-> MinValue(temp_data),
          max |-> MaxValue(temp_data),
          mean |-> "number",
          median |-> "number",
          std |-> Stat(Len(temp_data), 2),
          data |-> DateValues(temp_data)]

\* 37.5
FeverLimit == [kind |-> "float", num |-> 375, exp |-> 1]

\* lines 463-464: the dates with a temperature of 37.5 or more, each once,
\* in the order they come first
FeverDays(temp_data) ==
    LET Dates(fever) ==
            [i \in 1..Len(fever) |-> fever[i].date]
        Once(dates) ==
            SelectSeq([i \in 1..Len(dates) |->
                          IF \E j \in 1..(i - 1) : dates[j] = dates[i] THEN 0
                          ELSE dates[i]],
                      LAMBDA d : d # 0)
    IN  IF temp_data = <<>> THEN Absent
        ELSE Once(Dates(SelectSeq(temp_data,
                                  LAMBDA r : ~DecLess(r.value, FeverLimit))))

\* analyze_growth (lines 402-466)
Growth(growth) ==
    IF growth.none THEN Returns(EmptyResult)
    ELSE IF "type" \notin growth.columns THEN Raises("KeyError")
    ELSE IF OfType(growth.rows, "temperature") # <<>> /\ growth.dates = "object"
    THEN Raises("AttributeError")
    ELSE Returns([kind |-> "growth",
                  weight_kg |-> WeightKg(WeightData(growth.rows)),
                  height_cm |-> HeightCm(OfType(growth.rows, "height")),
                  temperature_celsius |->
                      TemperatureCelsius(OfType(growth.rows, "temperature")),
                  fever_days |-> FeverDays(OfType(growth.rows, "temperature"))])

(***************************************************************************)
(* get_comprehensive_analysis (analyzer.py lines 468-521).                 *)
(***************************************************************************)
\* lines 482-493: daily_stats
DailyStats(daily) ==
    IF daily.none THEN EmptyResult
    ELSE [kind |-> "daily_stats",
          sleep_minutes |-> Describe(Len(daily.rows)),
          milk_amount |-> Describe(Len(daily.rows)),
          milk_count |-> Describe(Len(daily.rows)),
          pee_count |-> Describe(Len(daily.rows)),
          poop_count |-> Describe(Len(daily.rows)),
          vomit_count |-> IF "vomit_count" \in daily.columns
                          THEN Describe(Len(daily.rows)) ELSE EmptyResult,
          vomit_level_sum |-> IF "vomit_level_sum" \in daily.columns
                              THEN Describe(Len(daily.rows)) ELSE EmptyResult]

\* lines 496-509: time_series
TimeSeries(daily) ==
    IF daily.none THEN EmptyResult
    ELSE [kind |-> "time_series",
          daily |->
              [dates |-> [i \in 1..Len(daily.rows) |-> daily.rows[i].date],
               sleep_minutes |-> [i \in 1..Len(daily.rows) |-> daily.rows[i].sleep_minutes],
               milk_amount |-> [i \in 1..Len(daily.rows) |-> daily.rows[i].milk_amount],
               milk_count |-> [i \in 1..Len(daily.rows) |-> daily.rows[i].milk_count],
               pee_count |-> [i \in 1..Len(daily.rows) |-> daily.rows[i].pee_count],
               poop_count |-> [i \in 1..Len(daily.rows) |-> daily.rows[i].poop_count],
               vomit_count |->
                   IF "vomit_count" \in daily.columns
                   THEN [i \in 1..Len(daily.rows) |-> daily.rows[i].vomit_count]
                   ELSE <<>>,
               vomit_level_sum |->
                   IF "vomit_level_sum" \in daily.columns
                   THEN [i \in 1..Len(daily.rows) |-> daily.rows[i].vomit_level_sum]
                   ELSE <<>>]]

\* lines 481-521 once the four analyses have returned: reading a column of a
\* frame without columns raises KeyError, and an index of datetime.date
\* objects has no strftime
Comprehensive(daily, vomit, sleep, feeding, growth) ==
    IF ~daily.none /\ "sleep_minutes" \notin daily.columns THEN Raises("KeyError")
    ELSE IF ~daily.none /\ daily.dates = "object" THEN Raises("AttributeError")
    ELSE Returns([kind |-> "comprehensive",
                  daily_stats |-> DailyStats(daily),
                  time_series |-> TimeSeries(daily),
                  vomit_correlation |-> vomit,
                  sleep_patterns |-> sleep,
                  feeding_patterns |-> feeding,
                  growth |-> growth])

\* get_comprehensive_analysis (lines 468-521)
ComprehensiveAnalysis(ev, daily, growth_frame) ==
    LET G(v, s, f, g) ==
            IF g.raised # "none" THEN Raises(g.raised)
            ELSE Comprehensive(daily, v.result, s.result, f.result, g.result)
        F(v, s, f) ==
            IF f.raised # "none" THEN Raises(f.raised) ELSE G(v, s, f, Growth(growth_frame))
        S(v, s) ==
            IF s.raised # "none" THEN Raises(s.raised)
            ELSE F(v, s, FeedingPatterns(ev, daily))
        V(v) ==
            IF v.raised # "none" THEN Raises(v.raised) ELSE S(v, SleepPatterns(ev, daily))
    IN  V(VomitCorrelation(ev, daily))

(***************************************************************************)
(* get_time_series_data (analyzer.py lines 78-136) and get_daily_patterns  *)
(* (lines 138-197) with value_column = 'value'.  An argument that is       *)
(* None is "None".                                                         *)
(***************************************************************************)
\* lines 97-107 and 157-164: the rows of the category and the unit that have
\* a value
Selected(rows, category, unit) ==
    SelectSeq(rows, LAMBDA e : /\ category = "None" \/ e.category = category
                               /\ unit = "None" \/ e.unit = unit
                               /\ e.value # None)

\* the values of rows
ValuesOf(rows) == [i \in 1..Len(rows) |-> rows[i].value]

\* the least and the greatest of a set of integers that is not empty
MinOf(S) == CHOOSE a \in S : \A b \in S : a <= b

MaxOf(S) == CHOOSE a \in S : \A b \in S : a >= b

\* the days from the first to the last datetime of rows
DaysOf(rows) ==
    LET Between(ords) == IF ords = {} THEN {} ELSE MinOf(ords)..MaxOf(ords)
    IN  Between({rows[i].datetime.ord : i \in 1..Len(rows)})

\* lines 113-134: df.resample('D') and the aggregates of the category, one
\* row for each day from the first to the last
Resampled(df, category) ==
    [d \in DaysOf(df) |->
        LET Of(day_rows) ==
                IF category = "sleep" THEN [sum |-> SumValues(ValuesOf(day_rows))]
                ELSE IF category = "vomit"
                THEN [count |-> Len(day_rows),
                      severity |-> SumValues(ValuesOf(day_rows))]
                ELSE [mean |-> Stat(Len(day_rows), 1),
                      sum |-> SumValues(ValuesOf(day_rows)),
                      count |-> Len(day_rows)]
        IN  Of(SelectSeq(df, LAMBDA e : e.datetime.ord = d))]

\* get_time_series_data (lines 78-136)
TimeSeriesData(ev, category, unit, resample_rule) ==
    IF ev.none THEN Returns([kind |-> "frame", rows |-> <<>>])
    ELSE IF \/ category # "None" /\ "category" \notin ev.columns
            \/ unit # "None" /\ "unit" \notin ev.columns
            \/ ~({"value", "datetime"} \subseteq ev.columns)
    THEN Raises("KeyError")
    ELSE IF resample_rule = "None"
    THEN Returns([kind |-> "frame", rows |-> Selected(ev.rows, category, unit)])
    ELSE Returns([kind |-> "resampled",
                  rows |-> Resampled(Selected(ev.rows, category, unit), category)])

\* lines 167-179: hour_bin, the index of the part of the day, one of
\* hour_bins, the event is in
HourBin(e, hour_bins) == (e.datetime.min * hour_bins) \div 1440

\* lines 183-192: one row of pattern_df, that of the events of one part of
\* the day; days is the number of dates with an event in this part, and
\* daily_avg, count / days, is the pair of the two numbers
PatternRow(bin_rows, label) ==
    [label |-> label,
     count |-> Len(bin_rows),
     mean |-> "number",
     sum |-> SumValues(ValuesOf(bin_rows)),
     days |-> Cardinality({bin_rows[i].date : i \in 1..Len(bin_rows)}),
     daily_avg |-> <<Len(bin_rows),
                     Cardinality({bin_rows[i].date : i \in 1..Len(bin_rows)})>>]

\* lines 166-195: pattern_df, its rows in the order of hour_bin; line 195
\* gives it hour_labels, the labels of all parts of the day, as its index,
\* which raises ValueError when the number of rows is not that of the labels
\* (a part of the day has no event)
Pattern(df, hour_bins) ==
    LET HourLabel(h) ==
            IF hour_bins = 24 THEN [from |-> h, to |-> h]
            ELSE [from |-> (h * 24) \div hour_bins,
                  to |-> ((h + 1) * 24) \div hour_bins]
        Sorted(bins) ==
            [k \in 1..Cardinality(bins) |->
                CHOOSE b \in bins : Cardinality({c \in bins : c < b}) = k - 1]
        Labelled(order) ==
            [k \in 1..Len(order) |->
                PatternRow(SelectSeq(df, LAMBDA e : HourBin(e, hour_bins) = order[k]),
                           HourLabel(k - 1))]
        Of(bins) ==
            IF Cardinality(bins) # hour_bins THEN Raises("ValueError")
            ELSE Returns([kind |-> "pattern", rows |-> Labelled(Sorted(bins))])
    IN  Of({HourBin(df[i], hour_bins) : i \in 1..Len(df)})

\* get_daily_patterns (lines 138-197)
DailyPatterns(ev, category, unit, hour_bins) ==
    IF ev.none THEN Returns([kind |-> "frame", rows |-> <<>>])
    ELSE IF \/ unit # "None" /\ "unit" \notin ev.columns
            \/ ~({"category", "value", "datetime", "date"} \subseteq ev.columns)
    THEN Raises("KeyError")
    ELSE Pattern(Selected(ev.rows, category, unit), hour_bins)

(***************************************************************************)
(* The calls of the analyzer's methods.                                    *)
(***************************************************************************)
\* lines 314-338: daily_sleep with the columns analyze_sleep_patterns adds
WithSleepColumns(daily) ==
    [daily EXCEPT !.columns = @ \cup {"sleep_hours", "wake_count", "sleep_fragmentation"}]

\* lines 414-418: the frame of the weights, in kg
InKg(growth) ==
    [growth EXCEPT !.rows = [i \in 1..Len(growth.rows) |->
                                IF growth.rows[i].type = "weight"
                                THEN ToKg(growth.rows[i]) ELSE growth.rows[i]]]

AnalyzeSleepPatterns ==
    LET Call(r) ==
            Analyzed([name |-> "analyze_sleep_patterns"], r,
                     IF r.raised \in {"none", "AttributeError"} /\ ~an_events_df.none
                     THEN EventsWork(an_events_df, "sleep") ELSE an_events_df,
                     IF r.raised \in {"none", "AttributeError"} /\ ~an_events_df.none
                     THEN WithSleepColumns(an_daily_df) ELSE an_daily_df,
                     an_growth_df)
    IN  Call(SleepPatterns(an_events_df, an_daily_df))

AnalyzeFeedingPatterns ==
    LET Call(r) ==
            Analyzed([name |-> "analyze_feeding_patterns"], r,
                     IF r.raised = "none" /\ r.result.kind # "empty"
                     THEN EventsWork(an_events_df, "milk") ELSE an_events_df,
                     an_daily_df, an_growth_df)
    IN  Call(FeedingPatterns(an_events_df, an_daily_df))

AnalyzeGrowth ==
    LET Call(r) ==
            Analyzed([name |-> "analyze_growth"], r, an_events_df, an_daily_df,
                     IF ~an_growth_df.none /\ "type" \in an_growth_df.columns
                     THEN InKg(an_growth_df) ELSE an_growth_df)
    IN  Call(Growth(an_growth_df))

\* of the frames the four analyses work on, those of the first and of the
\* last are kept
GetComprehensiveAnalysis ==
    LET Call(r) ==
            Analyzed([name |-> "get_comprehensive_analysis"], r,
                     IF r.raised = "none" /\ r.result.vomit_correlation.kind # "empty"
                     THEN EventsWork(an_events_df, "vomit") ELSE an_events_df,
                     VomitDailyWork(an_events_df, an_daily_df),
                     IF r.raised = "none" /\ ~an_growth_df.none
                     THEN InKg(an_growth_df) ELSE an_growth_df)
    IN  Call(ComprehensiveAnalysis(an_events_df, an_daily_df, an_growth_df))

\* the arguments the methods are called with
Categories == {"None", "sleep", "vomit"}

Units == {"None", "minutes"}

ResampleRules == {"D", "None"}

HourBins == {24, 2}

GetTimeSeriesData ==
    \E category \in Categories, unit \in Units, resample_rule \in ResampleRules :
        Analyzed([name |-> "get_time_series_data", category |-> category,
                  unit |-> unit, resample_rule |-> resample_rule],
                 TimeSeriesData(an_events_df, category, unit, resample_rule),
                 an_events_df, an_daily_df, an_growth_df)

GetDailyPatterns ==
    \E category \in Categories \ {"None"}, hour_bins \in HourBins :
        Analyzed([name |-> "get_daily_patterns", category |-> category,
                  unit |-> "None", hour_bins |-> hour_bins],
                 DailyPatterns(an_events_df, category, "None", hour_bins),
                 EventsWork(an_events_df, category), an_daily_df, an_growth_df)

(***************************************************************************)
(* The files of DATA_DIR and the requests of the backend (app.py).  The    *)
(* development server (line 403) serves each request in a thread of its    *)
(* own, so the steps of the requests interleave; a step is one write or    *)
(* one read of a file together with the work of the request before it.     *)
(* A file bears the number of the request that wrote it and a frame the    *)
(* number of the request whose parse it comes from; the program keeps      *)
(* neither number.                                                         *)
(***************************************************************************)
NoFile == [exists |-> FALSE, content |-> NoFrame, from |-> 0]

\* DATA_DIR before a request has written to it
NoFiles == [events |-> NoFile, daily_summary |-> NoFile, growth |-> NoFile,
            analysis_results |-> [exists |-> FALSE, content |-> NoResult, from |-> 0]]

\* DataFrame.to_csv (parser.py lines 460-462) by request k
ToCsv(frame, k) == [exists |-> TRUE, content |-> frame, from |-> k]

\* pd.read_csv with parse_dates (analyzer.py lines 52, 58, 67): the columns
\* named are datetime64; the file of a frame without columns has no column
\* to parse
ReadCsv(file) ==
    IF ~file.exists THEN [raised |-> "FileNotFoundError", frame |-> NoFrame]
    ELSE IF file.content.columns = {} THEN [raised |-> "EmptyDataError", frame |-> NoFrame]
    ELSE [raised |-> "none", frame |-> [file.content EXCEPT !.dates = "datetime64"]]

\* json.dump (utils.py lines 30-45) writes numbers, strings, lists and
\* dictionaries; the lists `data` of analyze_growth hold dates
JsonSerializable(result) ==
    \/ result.kind # "comprehensive"
    \/ result.growth.kind # "growth"
    \/ /\ result.growth.weight_kg = Absent
       /\ result.growth.height_cm = Absent
       /\ result.growth.temperature_celsius = Absent

\* a request as it arrives: the route, the file its body names, and no
\* frame yet
Request(kind, file) ==
    [kind |-> kind, file |-> file, pc |-> "start", status |-> "none",
     events_df |-> NoFrame, daily_summary_df |-> NoFrame, growth_df |-> NoFrame,
     from |-> [events |-> 0, daily_summary |-> 0, growth |-> 0],
     analysis |-> NoResult, response |-> NoResult]

\* what happens to request k and to DATA_DIR in a step
Step(k, request, files) ==
    /\ api_requests' = [api_requests EXCEPT ![k] = request]
    /\ data_dir' = files
    /\ UNCHANGED <<doc, file_text, file_ok, parser_vars, analyzer_vars>>

\* the `except Exception` of a route (lines 79-83, 110-114, 378-382)
Failed(request) == [request EXCEPT !.pc = "done", !.status = "error"]

\* parse_data and process_data, lines 64-65 and 350-351: the parser and
\* parse_all on the file
ApiParse(k, text) ==
    LET Parsed(r) ==
            IF r.raised # "none" THEN Failed(api_requests[k])
            ELSE [api_requests[k] EXCEPT
                     !.pc = "save_events",
                     !.events_df = r.self.events_df,
                     !.daily_summary_df = r.self.daily_summary_df,
                     !.growth_df = r.self.growth_df,
                     !.from = [events |-> k, daily_summary |-> k, growth |-> k]]
    IN  /\ api_requests[k].kind \in {"parse", "process"}
        /\ api_requests[k].pc = "start"
        /\ Step(k, Parsed(ParseAllOn(NewParser(File(TRUE, text)))), data_dir)

\* save_to_csv, line 460
ApiSaveEvents(k) ==
    /\ api_requests[k].pc = "save_events"
    /\ Step(k, [api_requests[k] EXCEPT !.pc = "save_daily_summary"],
            [data_dir EXCEPT !.events = ToCsv(api_requests[k].events_df, k)])

\* save_to_csv, line 461
ApiSaveDailySummary(k) ==
    /\ api_requests[k].pc = "save_daily_summary"
    /\ Step(k, [api_requests[k] EXCEPT !.pc = "save_growth"],
            [data_dir EXCEPT
                !.daily_summary = ToCsv(api_requests[k].daily_summary_df, k)])

\* save_to_csv, line 462, and for parse_data the response (lines 70-78)
ApiSaveGrowth(k) ==
    /\ api_requests[k].pc = "save_growth"
    /\ Step(k,
            IF api_requests[k].kind = "parse"
            THEN [api_requests[k] EXCEPT !.pc = "done", !.status = "success"]
            ELSE [api_requests[k] EXCEPT !.pc = "analyze"],
            [data_dir EXCEPT !.growth = ToCsv(api_requests[k].growth_df, k)])

\* load_data, lines 50-53: events.csv; an exception ends load_data (lines
\* 74-76) and the frames not yet read stay None
ApiLoadEvents(k) ==
    LET Loaded(r) ==
            IF r.raised # "none" THEN [api_requests[k] EXCEPT !.pc = "analyze"]
            ELSE [api_requests[k] EXCEPT !.pc = "load_daily_summary",
                                         !.events_df = r.frame,
                                         !.from.events = data_dir.events.from]
    IN  /\ api_requests[k].kind = "analyze"
        /\ api_requests[k].pc = "start"
        /\ Step(k, Loaded(ReadCsv(data_dir.events)), data_dir)

\* load_data, lines 56-59: daily_summary.csv
ApiLoadDailySummary(k) ==
    LET Loaded(r) ==
            IF r.raised # "none" THEN [api_requests[k] EXCEPT !.pc = "analyze"]
            ELSE [api_requests[k] EXCEPT !.pc = "load_growth",
                                         !.daily_summary_df = r.frame,
                                         !.from.daily_summary = data_dir.daily_summary.from]
    IN  /\ api_requests[k].pc = "load_daily_summary"
        /\ Step(k, Loaded(ReadCsv(data_dir.daily_summary)), data_dir)

\* load_data, lines 62-72: growth.csv; a file of ten bytes or fewer, that of
\* a frame without columns, gives an empty frame with the columns of growth
ReadGrowthCsv(file) ==
    IF ~file.exists THEN [raised |-> "FileNotFoundError", frame |-> NoFrame]
    ELSE IF file.content.columns = {}
    THEN [raised |-> "none",
          frame |-> [none |-> FALSE, rows |-> <<>>, dates |-> "datetime64",
                     columns |-> {"date", "datetime", "type", "value", "unit",
                                  "baby_name", "age_years", "age_months", "age_days"}]]
    ELSE ReadCsv(file)

ApiLoadGrowth(k) ==
    LET Loaded(r) ==
            IF r.raised # "none" THEN [api_requests[k] EXCEPT !.pc = "analyze"]
            ELSE [api_requests[k] EXCEPT !.pc = "analyze",
                                         !.growth_df = r.frame,
                                         !.from.growth = data_dir.growth.from]
    IN  /\ api_requests[k].pc = "load_growth"
        /\ Step(k, Loaded(ReadGrowthCsv(data_dir.growth)), data_dir)

(***************************************************************************)
(* save_json, load_json and prepare_api_response (utils.py).  A dictionary *)
(* is the set of its items; a key is an int or a str, and Python never     *)
(* finds an int key equal to a str key.                                    *)
(***************************************************************************)
\* the int h as a key, and the key str(h)
IntKey(h) == [type |-> "int", text |-> DigitsOf(h)]

StrKey(h) == [type |-> "str", text |-> DigitsOf(h)]

\* hour_counts.to_dict() (analyzer.py line 265): the hours are int keys
DictItems(counts) == {[key |-> IntKey(h), value |-> counts[h]] : h \in DOMAIN counts}

\* dict.get(key, default)
Get(items, key, default) ==
    IF \E it \in items : it.key = key
    THEN (CHOOSE it \in items : it.key = key).value
    ELSE default

\* the result tree as get_comprehensive_analysis returns it, with the
\* items of vomit_hour_distribution
DirectTree(result) ==
    [analysis |-> result,
     vomit_hours |->
        IF result.kind = "comprehensive" /\ result.vomit_correlation.kind = "correlations"
        THEN DictItems(result.vomit_correlation.vomit_hour_distribution)
        ELSE {}]

\* load_json of a file that is missing or is no JSON text: {} (lines 58-64)
EmptyTree == [analysis |-> EmptyResult, vomit_hours |-> {}]

\* save_json followed by load_json (lines 30-64): json.dump writes every key
\* of a dictionary as a string, so str(h) for the int h, and json.load
\* reads strings; numbers, strings and lists come back as they were.  A
\* tree json.dump raises on leaves a text that is no JSON
SavedAndLoaded(tree) ==
    IF ~JsonSerializable(tree.analysis) THEN EmptyTree
    ELSE [tree EXCEPT
             !.vomit_hours = {[key |-> [it.key EXCEPT !.type = "str"],
                               value |-> it.value] : it \in tree.vomit_hours}]

\* load_json (lines 48-64) of analysis_results.json
LoadJson(file) ==
    IF ~file.exists \/ file.content = NoResult THEN EmptyTree
    ELSE SavedAndLoaded(DirectTree(file.content))

\* prepare_api_response, lines 389-447: hourly_patterns, correlations and
\* growth
PrepareApiResponse(tree) ==
    LET a == tree.analysis
        HasCorrelations ==
            a.kind = "comprehensive" /\ a.vomit_correlation.kind = "correlations"
        HasData(key) ==
            /\ a.kind = "comprehensive"
            /\ a.growth.kind = "growth"
            /\ a.growth[key] # Absent
        CorrItems(v) ==
            <<v.milk_amount_vomit_count, v.sleep_minutes_vomit_count,
              v.milk_count_vomit_count, v.pee_count_vomit_count,
              v.poop_count_vomit_count>>
    IN  \* lines 432, 441: item[0].split('T') on a date that is no string
        IF HasData("weight_kg") \/ HasData("height_cm") THEN Raises("AttributeError")
        ELSE Returns(
               [kind |-> "response",
                hourly_patterns |->
                    IF HasCorrelations
                    THEN [h \in 0..23 |-> Get(tree.vomit_hours, StrKey(h), 0)]
                    ELSE Absent,
                correlations |->
                    IF HasCorrelations THEN CorrItems(a.vomit_correlation) ELSE <<>>,
                growth |-> [weight |-> Absent, height |-> Absent]])

\* analyze_data, lines 97-109, and process_data, lines 357-377:
\* get_comprehensive_analysis on the frames of the request, save_json,
\* prepare_api_response and the response; a save_json that raises has
\* opened the file for writing and leaves a text that is no JSON.  The
\* field `analysis` keeps the tree the analysis returned
ApiAnalyze(k) ==
    LET Responded(r, p) ==
            IF p.raised # "none"
            THEN [Failed(api_requests[k]) EXCEPT !.analysis = r.result]
            ELSE [api_requests[k] EXCEPT !.pc = "done", !.status = "success",
                                         !.analysis = r.result,
                                         !.response = p.result]
        Analysed(r) ==
            IF r.raised # "none" THEN Step(k, Failed(api_requests[k]), data_dir)
            ELSE IF ~JsonSerializable(r.result)
            THEN Step(k, [Failed(api_requests[k]) EXCEPT !.analysis = r.result],
                      [data_dir EXCEPT
                          !.analysis_results =
                              [exists |-> TRUE, content |-> NoResult, from |-> k]])
            ELSE Step(k, Responded(r, PrepareApiResponse(DirectTree(r.result))),
                      [data_dir EXCEPT
                          !.analysis_results =
                              [exists |-> TRUE, content |-> r.result, from |-> k]])
    IN  /\ api_requests[k].pc = "analyze"
        /\ Analysed(ComprehensiveAnalysis(api_requests[k].events_df,
                                          api_requests[k].daily_summary_df,
                                          api_requests[k].growth_df))

\* get_comprehensive_analysis of app.py, lines 293-311: load_json of
\* analysis_results.json and prepare_api_response
ApiComprehensive(k) ==
    LET Responded(p) ==
            IF p.raised # "none" THEN Failed(api_requests[k])
            ELSE [api_requests[k] EXCEPT !.pc = "done", !.status = "success",
                                         !.response = p.result]
    IN  /\ api_requests[k].kind = "comprehensive"
        /\ api_requests[k].pc = "start"
        /\ Step(k, Responded(PrepareApiResponse(LoadJson(data_dir.analysis_results))),
                data_dir)

(***************************************************************************)
(* save_to_csv and load_data called one after the other by one caller, as  *)
(* test_parser.py and test_analyzer.py do; the files bear the number 0.    *)
(***************************************************************************)
\* save_to_csv (parser.py lines 447-462)
SaveToCsv ==
    LET Saved(r) ==
            /\ raw_text' = r.self.raw_text
            /\ days_data' = r.self.days_data
            /\ events_df' = r.self.events_df
            /\ daily_summary_df' = r.self.daily_summary_df
            /\ growth_df' = r.self.growth_df
            /\ raised' = r.raised
            /\ last_call' = "save_to_csv"
            /\ data_dir' = IF r.raised # "none" THEN data_dir
                           ELSE [data_dir EXCEPT
                                    !.events = ToCsv(r.self.events_df, 0),
                                    !.daily_summary = ToCsv(r.self.daily_summary_df, 0),
                                    !.growth = ToCsv(r.self.growth_df, 0)]
            /\ UNCHANGED <<doc, file_text, file_ok, analyzer_vars, api_requests>>
    IN  Saved(IF events_df.none \/ daily_summary_df.none \/ growth_df.none
              THEN ParseAllOn(Self) ELSE Returned(Self))

\* load_data (analyzer.py lines 37-76): the three files one after the
\* other; an exception ends it, and the frames not yet read stay as they are
LoadData ==
    LET Loaded(e, d, g) ==
            /\ an_events_df' = IF e.raised = "none" THEN e.frame ELSE an_events_df
            /\ an_daily_df' = IF e.raised = "none" /\ d.raised = "none"
                              THEN d.frame ELSE an_daily_df
            /\ an_growth_df' = IF e.raised = "none" /\ d.raised = "none"
                                    /\ g.raised = "none"
                               THEN g.frame ELSE an_growth_df
            /\ an_call' = [name |-> "load_data"]
            /\ an_result' = NoResult
            /\ an_raised' = "none"
            /\ UNCHANGED <<doc, file_text, file_ok, parser_vars, api_vars>>
    IN  Loaded(ReadCsv(data_dir.events), ReadCsv(data_dir.daily_summary),
               ReadGrowthCsv(data_dir.growth))
(***************************************************************************)
(* The parser and the analyzer after construction.                         *)
(***************************************************************************)
FreshParser ==
    /\ raw_text = <<>>
    /\ days_data = <<>>
    /\ events_df = NoFrame
    /\ daily_summary_df = NoFrame
    /\ growth_df = NoFrame
    /\ last_call = "init"
    /\ raised = "none"

FreshAnalyzer ==
    /\ an_events_df = NoFrame
    /\ an_daily_df = NoFrame
    /\ an_growth_df = NoFrame
    /\ an_call = [name |-> "__init__"]
    /\ an_result = NoResult
    /\ an_raised = "none"

\* DATA_DIR before any request, and no request
FreshApi ==
    /\ data_dir = NoFiles
    /\ api_requests = <<>>

Header(date, baby, blank) ==
    [sep |-> TRUE, date |-> date, baby |-> baby, blank |-> blank]

Content(lines, summary) == [lines |-> lines, summary |-> summary]

Block(h, c, eol) ==
    [sep |-> h.sep, date |-> h.date, baby |-> h.baby, blank |-> h.blank,
     lines |-> c.lines, summary |-> c.summary, eol |-> eol]

\* whether the block is written as the format asks
WellFormed(b) == b.sep /\ b.blank /\ b.eol

(***************************************************************************)
(* Spec: documents of day-blocks with every kind of header, read by every  *)
(* sequence of calls of the parser's methods and then analysed.            *)
(***************************************************************************)
DocBlocks ==
    {Block(Header(DateText(2024, 2, 10), BabyWithAge, TRUE),
           Content(<<Line(8, 30, Milk100, <<>>), Line(9, 15, Vomit(<<"shou">>), <<>>),
                     Line(26, 15, Weight67, <<>>)>>, SummaryA), TRUE),
     Block(Header(DateText(2024, 2, 11), BabyPlain, TRUE),
           Content(<<>>, NoSummary), TRUE),
     Block(Header(DateText(2024, 13, 40), BabyPlain, TRUE),
           Content(<<Line(8, 0, <<<<"okiru">>>>, <<>>)>>, SummaryB), TRUE),
     Block(Header(NotADate, BabyPlain, TRUE),
           Content(<<Line(8, 0, <<<<"okiru">>>>, <<>>)>>, SummaryB), TRUE),
     Block(Header(DateText(2024, 2, 12), BabyPlain, FALSE),
           Content(<<>>, NoSummary), TRUE)}

Init ==
    /\ \/ file_ok = TRUE /\ doc \in SeqsUpTo(DocBlocks, MaxBlocks)
       \/ file_ok = FALSE /\ doc = <<>>
    /\ file_text = DocText(doc)
    /\ FreshParser
    /\ FreshAnalyzer
    /\ FreshApi

Next ==
    \/ LoadFile
    \/ ParseDays
    \/ CreateEventsDataframe
    \/ CreateDailySummaryDataframe
    \/ CreateGrowthDataframe
    \/ ParseAll
    \/ SaveToCsv
    \/ NewAnalyzer
    \/ AnalyzeVomitCorrelation

Spec == Init /\ [][Next]_vars

(***************************************************************************)
(* SpecEvents: one well-dated day-block of 2024/2/10 with up to MaxLines   *)
(* event lines, its last line with or without a line feed, read by         *)
(* parse_days and create_events_dataframe.                                 *)
(***************************************************************************)
EventLines ==
    {Line(8, 0, <<<<"okiru">>>>, <<>>),
     Line(8, 30, Milk100, <<>>),
     Line(9, 15, Vomit(<<"shou">>), <<>>),
     Line(9, 40, Vomit(<<"goku", "shou">>), <<>>),
     Line(9, 45, Vomit(<<"chuu">>), <<>>),
     Line(9, 50, Vomit(<<"dai">>), <<>>),
     Line(9, 55, Vomit(<<"x">>), <<>>),
     Line(10, 0, Weight67, <<>>),
     Line(11, 0, <<<<"miruku", "1", "0", "0", "ml">>>>, Duration90),
     Line(10, 30, <<<<"taiju", "ofuro">>>>, <<>>),
     Line(10, 45, <<<<"ofuro", "taiju">>>>, <<>>),
     Line(21, 0, <<<<"neru">>>>, <<"8", "jikan", "3", "0", "fun">>),
     Line(23, 59, <<<<"unchi">>>>, <<>>),
     Line(26, 15, <<<<"miruku">>>>, <<>>),
     Line(49, 30, <<<<"oshikko">>>>, <<>>),
     Line(12, 75, <<<<"okiru">>>>, <<>>),
     Line(26, 75, <<<<"okiru">>>>, <<>>)}

InitEvents ==
    /\ file_ok = TRUE
    /\ \E lines \in SeqsUpTo(EventLines, MaxLines), eol \in BOOLEAN :
          doc = <<Block(Header(DateText(2024, 2, 10), BabyWithAge, TRUE),
                        Content(lines, NoSummary), eol)>>
    /\ file_text = DocText(doc)
    /\ FreshParser
    /\ FreshAnalyzer
    /\ FreshApi

NextEvents ==
    \/ ParseDays
    \/ CreateEventsDataframe

SpecEvents == InitEvents /\ [][NextEvents]_vars

(***************************************************************************)
(* SpecSummary: documents of up to MaxBlocks well-formed day-blocks with   *)
(* and without a summary region, read by parse_days and                    *)
(* create_daily_summary_dataframe.                                         *)
(***************************************************************************)
SummaryBlocks ==
    {Block(Header(DateText(2024, 2, 10), BabyWithAge, TRUE),
           Content(<<Line(8, 30, Milk100, <<>>), Line(9, 15, Vomit(<<"shou">>), <<>>),
                     Line(10, 0, <<<<"haku">>>>, <<>>)>>, SummaryA), TRUE),
     Block(Header(DateText(2024, 2, 11), BabyPlain, TRUE),
           Content(<<Line(9, 0, <<<<"haku">>>>, Duration90),
                     Line(12, 0, <<<<"haku", "1", "0", "0", "ml">>, <<"x">>>>, <<>>)>>,
                   SummaryB), TRUE),
     Block(Header(DateText(2024, 2, 12), BabyPlain, TRUE),
           Content(<<Line(8, 0, <<<<"okiru">>>>, <<>>)>>, SummaryDeviating), TRUE),
     Block(Header(DateText(2024, 2, 13), BabyPlain, TRUE),
           Content(<<>>, NoSummary), TRUE),
     Block(Header(DateText(2024, 2, 14), BabyPlain, TRUE),
           Content(<<>>, SummaryB), TRUE),
     Block(Header(DateText(2024, 2, 15), BabyWithAge, TRUE),
           Content(<<Line(7, 0, <<<<"haku">>>>, <<>>), Line(7, 30, Milk100, <<>>)>>,
                   NoSummary), TRUE)}

InitSummary ==
    /\ file_ok = TRUE
    /\ doc \in SeqsUpTo(SummaryBlocks, MaxBlocks)
    /\ file_text = DocText(doc)
    /\ FreshParser
    /\ FreshAnalyzer
    /\ FreshApi

NextSummary ==
    \/ ParseDays
    \/ CreateDailySummaryDataframe

SpecSummary == InitSummary /\ [][NextSummary]_vars

(***************************************************************************)
(* SpecAnalyze: an analyzer given an events frame of up to MaxRows milk    *)
(* and vomit events around midnight, or of up to MaxRows sleep and vomit   *)
(* events in the two halves of two days, in any order, and the daily       *)
(* summaries of three days.                                                *)
(***************************************************************************)
\* minutes after 2024-02-10 22:00; the window ends of a milk event at 22:00
\* are 30, 60 and 120
Offsets == {0, 30, 60, 61, 120, 121}

EventRow(category, offset) ==
    [category |-> category,
     datetime |-> DtAddMinutes(DateTime(Ordinal(2024, 2, 10), 22 * 60), offset)]

AnalyzerRows == {EventRow(c, o) : c \in {"milk", "vomit"}, o \in Offsets}

DailyRow(day, milk_amount, vomit_count) ==
    [date |-> Ordinal(2024, 2, day), milk_amount |-> milk_amount,
     milk_count |-> 3, sleep_minutes |-> 600 + day, pee_count |-> day,
     poop_count |-> 2, vomit_count |-> vomit_count]

\* events of two days in the two halves of the day, each with a value
PatternEvents ==
    {[category |-> c, date |-> Ordinal(2024, 2, d),
      datetime |-> DateTime(Ordinal(2024, 2, d), h * 60),
      value |-> IntVal(1), unit |-> "None"] :
        c \in {"sleep", "vomit"}, d \in {10, 11}, h \in {6, 18}}

ThreeDays == Frame(<<DailyRow(10, 300, 1), DailyRow(11, 280, 0), DailyRow(12, 320, 2)>>)

InitAnalyze ==
    /\ file_ok = TRUE
    /\ doc = <<>>
    /\ file_text = <<>>
    /\ FreshParser
    /\ \/ /\ an_events_df \in {Frame(rows) : rows \in SeqsUpTo(AnalyzerRows, MaxRows)}
          /\ an_daily_df = ThreeDays
       \/ /\ an_events_df \in {Frame(rows) : rows \in SeqsUpTo(PatternEvents, MaxRows)}
          /\ an_daily_df = ThreeDays
       \/ /\ an_events_df = NoFrame
          /\ an_daily_df \in {NoFrame, ThreeDays}
    /\ an_growth_df = NoFrame
    /\ an_call = [name |-> "__init__"]
    /\ an_result = NoResult
    /\ an_raised = "none"
    /\ FreshApi

NextAnalyze ==
    \/ AnalyzeVomitCorrelation
    \/ GetDailyPatterns

SpecAnalyze == InitAnalyze /\ [][NextAnalyze]_vars


(***************************************************************************)
(* SpecPipeline: logs of up to MaxDays day-blocks, parsed by parse_all,    *)
(* and an analyzer that is given the frames of the parser, or that loads   *)
(* them from the files save_to_csv has written, or that has no frame,      *)
(* called with each of its methods.                                        *)
(***************************************************************************)
MaxDays == 3

\* the type text of a milk event, written without a space
Milk(digits) == << <<"miruku">> \o digits \o <<"ml">> >>

\* 2024/2/10: three milk events and a vomit event 45 minutes after the last
DayOfMilk ==
    Block(Header(DateText(2024, 2, 10), BabyWithAge, TRUE),
          Content(<<Line(8, 0, Milk(<<"1", "0", "0">>), <<>>),
                    Line(12, 0, Milk(<<"1", "2", "0">>), <<>>),
                    Line(16, 0, Milk(<<"8", "0">>), <<>>),
                    Line(16, 45, Vomit(<<"shou">>), <<>>)>>, SummaryA), TRUE)

\* 2024/2/11: no vomit event, no sleep, three wake events, a weight in g
DayAwake ==
    Block(Header(DateText(2024, 2, 11), BabyWithAge, TRUE),
          Content(<<Line(6, 0, <<<<"okiru">>>>, <<>>),
                    Line(9, 0, <<<<"okiru">>>>, <<>>),
                    Line(10, 0, <<<<"taiju", "6", "7", "0", "0", "g">>>>, <<>>),
                    Line(13, 0, <<<<"okiru">>>>, <<>>)>>,
                  [kind |-> "template", n |-> <<0, 0, 2, 200, 0, 0, 5, 1>>]), TRUE)

\* 2024/2/12: a temperature, a weight in kg, a height and a sleep, and no
\* summary
DayOfGrowth ==
    Block(Header(DateText(2024, 2, 12), BabyPlain, TRUE),
          Content(<<Line(8, 0, <<<<"taion", "3", "7", ".", "5", "degC">>>>, <<>>),
                    Line(10, 0, <<<<"taiju", "6", ".", "9", "kg">>>>, <<>>),
                    Line(11, 0, <<<<"shincho", "6", "0", ".", "5", "cm">>>>, <<>>),
                    Line(21, 0, <<<<"neru">>>>, Duration90)>>,
                  NoSummary), TRUE)

\* 2024/2/13: no event
DayOfNothing ==
    Block(Header(DateText(2024, 2, 13), BabyPlain, TRUE), Content(<<>>, NoSummary), TRUE)

PipelineBlocks == {DayOfMilk, DayAwake, DayOfGrowth, DayOfNothing}

InitPipeline ==
    /\ file_ok = TRUE
    /\ doc \in SeqsUpTo(PipelineBlocks, MaxDays)
    /\ file_text = DocText(doc)
    /\ FreshParser
    /\ FreshAnalyzer
    /\ FreshApi

\* whether a method of the analyzer can be called: the analyzer has been
\* given frames, or it has none and the log is parsed
Callable == an_call.name # "__init__" \/ last_call = "parse_all" \/ ~an_events_df.none

\* whether no method of the analyzer has been called
Uncalled == an_call.name \in {"__init__", "load_data"}

NextPipeline ==
    \/ last_call = "init" /\ ParseAll
    \/ last_call = "parse_all" /\ an_events_df.none /\ Uncalled /\ SaveToCsv
    \/ an_events_df.none /\ Uncalled /\ NewAnalyzer
    \/ last_call = "save_to_csv" /\ an_call.name = "__init__" /\ LoadData
    \/ Callable /\ AnalyzeVomitCorrelation
    \/ Callable /\ AnalyzeSleepPatterns
    \/ Callable /\ AnalyzeFeedingPatterns
    \/ Callable /\ AnalyzeGrowth
    \/ Callable /\ GetComprehensiveAnalysis
    \/ Callable /\ GetTimeSeriesData
    \/ Callable /\ GetDailyPatterns

SpecPipeline == InitPipeline /\ [][NextPipeline]_vars

(***************************************************************************)
(* SpecCategorize: one day-block with one event line whose type text is    *)
(* made of up to MaxKeywords keywords of _categorize_event and texts that  *)
(* are none, read by parse_days and create_events_dataframe.               *)
(***************************************************************************)
MaxKeywords == 2

TypeWords ==
    {"okiru", "neru", "miruku", "bonyu", "oshikko", "unchi", "haku", "ofuro", "taiju",
     "shincho", "taion", "byoin", "yobosesshu", "rinyushoku", "kusuri", "kensa",
     "shochi", "shinsatsu", "x"}

InitCategorize ==
    /\ file_ok = TRUE
    /\ \E type \in SeqsUpTo(TypeWords, MaxKeywords) \ {<<>>} :
          doc = <<Block(Header(DateText(2024, 2, 10), BabyWithAge, TRUE),
                        Content(<<Line(8, 0, <<type>>, <<>>)>>, NoSummary), TRUE)>>
    /\ file_text = DocText(doc)
    /\ FreshParser
    /\ FreshAnalyzer
    /\ FreshApi

NextCategorize ==
    \/ ParseDays
    \/ CreateEventsDataframe

SpecCategorize == InitCategorize /\ [][NextCategorize]_vars

(***************************************************************************)
(* SpecApi: up to MaxRequests requests to /api/parse, /api/process and     *)
(* /api/analyze, served concurrently.  The bodies of the requests name     *)
(* one of two log files.                                                   *)
(***************************************************************************)
MaxRequests == 3

\* 2024/2/11: a wake event
DayOfWaking ==
    Block(Header(DateText(2024, 2, 11), BabyWithAge, TRUE),
          Content(<<Line(7, 0, <<<<"okiru">>>>, <<>>)>>, SummaryB), TRUE)

\* the log files: three days without a measurement, and three days with
\* measurements
LogText(file) ==
    IF file = "a" THEN DocText(<<DayOfMilk, DayOfWaking, DayOfNothing>>)
    ELSE DocText(<<DayAwake, DayOfGrowth, DayOfNothing>>)

\* the requests a client makes
Requests ==
    <<Request("parse", "a"), Request("parse", "b"), Request("process", "a"),
      Request("process", "b"), Request("analyze", "none"),
      Request("comprehensive", "none")>>

\* the requests of a run, numbered in the order of Requests: which of two
\* concurrent requests has the lower number is of no matter
InitApi ==
    /\ file_ok = TRUE
    /\ doc = <<>>
    /\ file_text = <<>>
    /\ FreshParser
    /\ FreshAnalyzer
    /\ data_dir = NoFiles
    /\ \E n \in 0..MaxRequests :
          \E which \in [1..n -> 1..Len(Requests)] :
             /\ \A i \in 1..(n - 1) : which[i] <= which[i + 1]
             /\ api_requests = [i \in 1..n |-> Requests[which[i]]]

NextApi ==
    \/ \E k \in 1..Len(api_requests) : ApiParse(k, LogText(api_requests[k].file))
    \/ \E k \in 1..Len(api_requests) : ApiSaveEvents(k)
    \/ \E k \in 1..Len(api_requests) : ApiSaveDailySummary(k)
    \/ \E k \in 1..Len(api_requests) : ApiSaveGrowth(k)
    \/ \E k \in 1..Len(api_requests) : ApiLoadEvents(k)
    \/ \E k \in 1..Len(api_requests) : ApiLoadDailySummary(k)
    \/ \E k \in 1..Len(api_requests) : ApiLoadGrowth(k)
    \/ \E k \in 1..Len(api_requests) : ApiAnalyze(k)
    \/ \E k \in 1..Len(api_requests) : ApiComprehensive(k)

SpecApi == InitApi /\ [][NextApi]_vars
(***************************************************************************)
(* Properties.  The input side of each is read from doc, the document the  *)
(* file text was written from; a day entry belongs to the block whose      *)
(* separator it was read from.                                             *)
(***************************************************************************)
Range(s) == {s[i] : i \in 1..Len(s)}

\* whether the header line of block b is a date: YYYY/M/D(weekday-char) that
\* names a day of the calendar
HeaderIsDate(b) ==
    /\ DateMatch(b.date).ok
    /\ ValidDate(DateMatch(b.date).y, DateMatch(b.date).m, DateMatch(b.date).d)

\* the date the header of block b names
BlockDate(b) ==
    Ordinal(DateMatch(b.date).y, DateMatch(b.date).m, DateMatch(b.date).d)

\* the blocks of the document that are day-blocks with a date
DatedBlocks == {i \in 1..Len(doc) : doc[i].sep /\ HeaderIsDate(doc[i])}

\* the day entries read from block i of the document
EntriesOf(i) ==
    {k \in 1..Len(days_data) : days_data[k].at = BlockStart(doc, i)}

\* the events of all day entries
ParsedEvents == UNION {Range(days_data[k].events) : k \in 1..Len(days_data)}

\* hour and minute of a time text hh:mm
HourOf(time) == ToInt(SubSeq(time, 1, 2))

MinuteOf(time) == ToInt(SubSeq(time, 4, 5))

\* the event lines of the document's first block
FirstLines == IF doc = <<>> THEN <<>> ELSE doc[1].lines

\* C1: parse_all signals ParseError exactly for the inputs in which no
\* day-block is recognized (unreadable file, empty text, no block whose
\* header is a date); it never returns three empty record sets for them.
C1_ParseErrorIffNoDayBlock ==
    last_call = "parse_all" =>
        ((raised = "ParseError") <=> (~file_ok \/ DatedBlocks = {}))

\* C2: for every event line `HH:MM T` or `HH:MM T (D)` whose type text T is
\* one or more words separated by single spaces, in a file whose last line
\* ends with a line feed, the event's type is the whole of T and its detail
\* is D; there is one event per line.
C2_TypeIsWholeText ==
    (/\ last_call = "parse_days"
     /\ doc[1].eol
     /\ \A k \in 1..Len(FirstLines) : FirstLines[k].mm < 60)
        => /\ Len(days_data) = 1
           /\ Len(days_data[1].events) = Len(FirstLines)
           /\ \A k \in 1..Len(FirstLines) :
                 /\ days_data[1].events[k].type = JoinWords(FirstLines[k].words)
                 /\ days_data[1].events[k].detail = FirstLines[k].detail

\* C3: an event whose source time is hh:mm with hh >= 24 and mm <= 59 has the
\* timestamp (date of its block + hh div 24 days) at (hh mod 24):mm, in the
\* day entry and in the events frame; the event at 26:15 of the block
\* 2024/2/10 is at 2024-02-11 02:15, after every event of the block with
\* hh < 24 and before 2024-02-11 03:00.
C3_RolloverTimestamp ==
    /\ \A i \in DatedBlocks : \A k \in EntriesOf(i) : \A e \in Range(days_data[k].events) :
          (HourOf(e.time) >= 24 /\ MinuteOf(e.time) <= 59) =>
             /\ e.datetime.ord = BlockDate(doc[i]) + (HourOf(e.time) \div 24)
             /\ e.datetime.min = (HourOf(e.time) % 24) * 60 + MinuteOf(e.time)
             /\ (e.time = <<"2", "6", ":", "1", "5">>
                   /\ BlockDate(doc[i]) = Ordinal(2024, 2, 10)) =>
                   /\ e.datetime = DateTime(Ordinal(2024, 2, 11), 2 * 60 + 15)
                   /\ \A f \in Range(days_data[k].events) :
                         HourOf(f.time) < 24 => DtLess(f.datetime, e.datetime)
                   /\ DtLess(e.datetime, DateTime(Ordinal(2024, 2, 11), 3 * 60))
    /\ \A r \in Range(events_df.rows) :
          (HourOf(r.time) >= 24 /\ MinuteOf(r.time) <= 59) =>
             /\ r.datetime.ord = r.date + (HourOf(r.time) \div 24)
             /\ r.datetime.min = (HourOf(r.time) % 24) * 60 + MinuteOf(r.time)

\* a day entry holds an event of 26:15 and an event of an hour below 24, and
\* the events frame has been built from it
C3_Witness ==
    /\ ~events_df.none
    /\ \E r \in Range(events_df.rows) : r.time = <<"2", "6", ":", "1", "5">>
    /\ \E d \in Range(days_data) : \E e, f \in Range(d.events) :
          /\ e.time = <<"2", "6", ":", "1", "5">>
          /\ HourOf(f.time) < 24

\* C4: an event line whose minute is 60 or more never makes the parse raise;
\* that line alone is skipped and every other line of the block still has
\* its event.
C4_BadMinuteSkipped ==
    (last_call # "init" /\ \E k \in 1..Len(FirstLines) : FirstLines[k].mm >= 60)
        => /\ raised = "none"
           /\ doc[1].eol =>
                 \A k \in 1..Len(FirstLines) :
                    FirstLines[k].mm < 60 =>
                       \E e \in ParsedEvents :
                          e.time = TimeText(FirstLines[k].hh, FirstLines[k].mm)

\* C5: a day-block whose header is not a date, a header of the right shape
\* with a month or day out of range included, is discarded without raising,
\* and every other block whose header is a date still has its day entry.
C5_InvalidHeaderDiscarded ==
    (/\ last_call = "parse_days"
     /\ \A i \in 1..Len(doc) : WellFormed(doc[i])
     /\ \E i \in 1..Len(doc) : ~HeaderIsDate(doc[i]))
        => /\ raised = "none"
           /\ \A i \in 1..Len(doc) :
                 IF HeaderIsDate(doc[i]) THEN Cardinality(EntriesOf(i)) = 1
                 ELSE EntriesOf(i) = {}

\* C6: an event whose type text contains both the weight keyword and the
\* bath keyword, in either order, has category weight.
C6_WeightBeforeBath ==
    \A e \in ParsedEvents :
        (Contains(e.type, <<"taiju">>) /\ Contains(e.type, <<"ofuro">>))
            => e.category = "weight"

\* the number of a severity word
SeverityOf(word) ==
    CASE word = <<"goku", "shou">> -> 1 [] word = <<"shou">> -> 2
      [] word = <<"chuu">> -> 3 [] word = <<"dai">> -> 4

SeverityWords == {<<"goku", "shou">>, <<"shou">>, <<"chuu">>, <<"dai">>}

\* C7: every event line `HH:MM <haku> L` has an event of category vomit; when
\* L is a severity word its unit is `level` and its value the number of the
\* word, 1 to 4; when L is another word its value is None.
C7_VomitSeverity ==
    (last_call = "parse_days" /\ raised = "none" /\ doc[1].eol) =>
        \A k \in 1..Len(FirstLines) :
            (Len(FirstLines[k].words) = 2 /\ FirstLines[k].words[1] = <<"haku">>) =>
                \E e \in ParsedEvents :
                    /\ e.time = TimeText(FirstLines[k].hh, FirstLines[k].mm)
                    /\ e.category = "vomit"
                    /\ IF FirstLines[k].words[2] \in SeverityWords
                       THEN /\ e.unit = "level"
                            /\ e.value = IntVal(SeverityOf(FirstLines[k].words[2]))
                       ELSE e.value = None

\* the summary of a block written from the template with the integers n
TemplateSummary(n) ==
    [breastfeed_left |-> n[1], breastfeed_right |-> n[2], milk_count |-> n[3],
     milk_amount |-> n[4], sleep_minutes |-> 60 * n[5] + n[6],
     pee_count |-> n[7], poop_count |-> n[8]]

\* C8: every day-block whose summary region follows the template with the
\* integers (L, R, C, V, H, M, P, Q) has one day entry, whose summary is
\* L, R, C, V, 60 * H + M, P, Q, and one row of the daily-summary frame with
\* the same seven fields: the integers of its own summary lines and of no
\* other block's.
C8_SummaryFromOwnBlock ==
    last_call # "init" =>
        \A i \in 1..Len(doc) :
            doc[i].summary.kind = "template" =>
                /\ Cardinality(EntriesOf(i)) = 1
                /\ \A k \in EntriesOf(i) :
                      days_data[k].summary = TemplateSummary(doc[i].summary.n)
                /\ ~daily_summary_df.none =>
                      /\ Cardinality({j \in 1..Len(daily_summary_df.rows) :
                            daily_summary_df.rows[j].at = BlockStart(doc, i)}) = 1
                      /\ \A r \in Range(daily_summary_df.rows) :
                            r.at = BlockStart(doc, i) =>
                               [f \in DOMAIN ZeroSummary |-> r[f]]
                                   = TemplateSummary(doc[i].summary.n)

\* two blocks with different template summaries, parsed into the frame
C8_Witness ==
    /\ Len(doc) = 2
    /\ doc[1].summary = SummaryA
    /\ doc[2].summary = SummaryB
    /\ ~daily_summary_df.none
    /\ Len(daily_summary_df.rows) = 2
    /\ daily_summary_df.rows[2].milk_amount = 120

\* C9: in every row of the daily summaries vomit_count is the number of the
\* day's events of category vomit and vomit_level_sum the sum of their values
\* that are not None, so that 0 <= vomit_level_sum <= 4 * vomit_count.
C9_VomitTotalsWithinLevels ==
    \A r \in Range(daily_summary_df.rows) : \A d \in Range(days_data) :
        d.at = r.at =>
            /\ r.vomit_count =
                  Cardinality({n \in 1..Len(d.events) : d.events[n].category = "vomit"})
            /\ r.vomit_level_sum =
                  LET valued == SelectSeq(d.events,
                                   LAMBDA e : e.category = "vomit" /\ e.value # None)
                  IN  SumValues([n \in 1..Len(valued) |-> valued[n].value])
            /\ 0 <= r.vomit_level_sum.num
            /\ r.vomit_level_sum.num
                  <= 4 * r.vomit_count * Pow10(r.vomit_level_sum.exp)

\* a datetime as minutes since the start of the calendar
AbsMinutes(dt) == dt.ord * 1440 + dt.min

\* the milk events that a vomit event follows within w minutes: t < v <= t + w
FollowedMilk(w) ==
    {i \in 1..Len(an_events_df.rows) :
        /\ an_events_df.rows[i].category = "milk"
        /\ \E j \in 1..Len(an_events_df.rows) :
              /\ an_events_df.rows[j].category = "vomit"
              /\ AbsMinutes(an_events_df.rows[i].datetime)
                    < AbsMinutes(an_events_df.rows[j].datetime)
              /\ AbsMinutes(an_events_df.rows[j].datetime)
                    <= AbsMinutes(an_events_df.rows[i].datetime) + w}

\* C10: for each window w of 30, 60 and 120 minutes the follow-on count is
\* the number of milk events at a time t for which a vomit event exists at a
\* time v with t < v <= t + w: a vomit at t + w counts, a vomit at t, before
\* t or after t + w does not.
C10_FollowOnWindow ==
    an_result.kind = "correlations" =>
        \A w \in {30, 60, 120} :
            an_result.milk_followed_by_vomit.count[w] = Cardinality(FollowedMilk(w))

\* an analysed frame with a vomit exactly 60 minutes after a milk event and a
\* vomit at the very time of a milk event
C10_Witness ==
    /\ an_result.kind = "correlations"
    /\ \E i, j \in 1..Len(an_events_df.rows) :
          /\ an_events_df.rows[i].category = "milk"
          /\ an_events_df.rows[j].category = "vomit"
          /\ AbsMinutes(an_events_df.rows[j].datetime)
                = AbsMinutes(an_events_df.rows[i].datetime) + 60
    /\ \E i, j \in 1..Len(an_events_df.rows) :
          /\ an_events_df.rows[i].category = "milk"
          /\ an_events_df.rows[j].category = "vomit"
          /\ an_events_df.rows[j].datetime = an_events_df.rows[i].datetime


(***************************************************************************)
(* The properties of the analysis of a parsed log.                         *)
(***************************************************************************)
\* the methods of the analyzer that return a dictionary
AnalysisCalls ==
    {"analyze_vomit_correlation", "analyze_sleep_patterns", "analyze_feeding_patterns",
     "analyze_growth", "get_comprehensive_analysis"}

\* C11: for a log of two days whose first day has the three milk events of
\* 100ml, 120ml and 80ml and a vomit event 45 minutes after the last, and
\* whose second day has no vomit event, get_comprehensive_analysis on the
\* frames of the parse returns, with the rate 1 / (number of milk events)
\* for the window of 60 minutes and the vomit_count series 1, 0.
C11_TwoDayLog ==
    (/\ Len(doc) = 2
     /\ doc[1] = DayOfMilk
     /\ doc[2] \in {DayAwake, DayOfGrowth, DayOfNothing}
     /\ ~an_events_df.none
     /\ an_call.name = "get_comprehensive_analysis")
        => /\ an_raised = "none"
           /\ an_result.vomit_correlation.kind = "correlations"
           /\ an_result.vomit_correlation.milk_followed_by_vomit.rate[60]
                 = <<1, Len(OfCategory(an_events_df.rows, "milk"))>>
           /\ an_result.time_series.daily.vomit_count = <<1, 0>>

\* whether a frame is absent or has no row
Missing(frame) == frame.none \/ frame.rows = <<>>

\* C12: analyze_vomit_correlation, analyze_sleep_patterns,
\* analyze_feeding_patterns, analyze_growth and get_comprehensive_analysis
\* do not raise when a frame is absent or has no row or when the daily
\* summaries hold fewer than three days, and an analysis that lacks a frame
\* it reads returns the empty dictionary.
C12_NeverFailsOnMissingData ==
    (/\ an_call.name \in AnalysisCalls
     /\ \/ Missing(an_events_df)
        \/ Missing(an_daily_df)
        \/ Missing(an_growth_df)
        \/ Len(an_daily_df.rows) < 3)
        => /\ an_raised = "none"
           /\ (/\ an_call.name \in {"analyze_vomit_correlation", "analyze_sleep_patterns",
                                    "analyze_feeding_patterns"}
               /\ Missing(an_events_df) \/ Missing(an_daily_df))
                 => an_result = EmptyResult
           /\ (an_call.name = "analyze_growth" /\ an_growth_df.none)
                 => an_result = EmptyResult

\* C13: analyze_sleep_patterns on frames with rows returns, and the
\* fragmentation index of the day of each row of the daily summaries is the
\* number of wake events of the date of the row divided by
\* sleep_minutes / 60 + 0.001, a number.
C13_FragmentationByDate ==
    (/\ an_call.name = "analyze_sleep_patterns"
     /\ ~Missing(an_events_df)
     /\ ~Missing(an_daily_df))
        => /\ an_raised = "none"
           /\ \A i \in 1..Len(an_daily_df.rows) :
                 an_result.fragmentation[i]
                    = [kind |-> "ratio",
                       num |-> 60000 * Cardinality(
                                  {j \in 1..Len(an_events_df.rows) :
                                      /\ an_events_df.rows[j].category = "wake"
                                      /\ an_events_df.rows[j].date
                                            = an_daily_df.rows[i].date}),
                       den |-> an_daily_df.rows[i].sleep_minutes * 1000 + 60]

\* C17: in the dictionary get_comprehensive_analysis returns no statistic
\* is NaN.
C17_NoNaNLeaf ==
    LET Statistics == {"mean", "std", "min", "q25", "q50", "q75", "max"}
        NaNIn(d) ==
            \/ d.kind = "describe" /\ \E f \in Statistics : d[f] = "nan"
            \/ d.kind = "describe_object"
        NaNInAny(section, keys) == \E k \in keys : NaNIn(section[k])
        NaNInCorrelations(c) ==
            /\ c.kind = "correlations"
            /\ \E k \in {"milk_amount_vomit_count", "sleep_minutes_vomit_count",
                          "milk_amount_lag1_vomit_count", "milk_count_vomit_count",
                          "pee_count_vomit_count", "poop_count_vomit_count"} :
                   c[k] = "nan"
        NaNInSleep(sl) ==
            /\ sl.kind = "sleep"
            /\ NaNInAny(sl, {"daily_sleep_minutes", "daily_sleep_hours",
                             "sleep_duration_minutes", "sleep_fragmentation"})
        NaNInFeeding(fe) ==
            /\ fe.kind = "feeding"
            /\ NaNInAny(fe, {"daily_milk_amount", "daily_milk_count",
                             "milk_amount_distribution", "milk_interval_minutes"})
        NaNInGrowth(g) ==
            /\ g.kind = "growth"
            /\ g.temperature_celsius # Absent
            /\ g.temperature_celsius.std = "nan"
        NaNInDailyStats(st) ==
            /\ st.kind = "daily_stats"
            /\ NaNInAny(st, {"sleep_minutes", "milk_amount", "milk_count", "pee_count",
                             "poop_count", "vomit_count", "vomit_level_sum"})
    IN  (an_call.name = "get_comprehensive_analysis" /\ an_raised = "none")
            => /\ ~NaNInCorrelations(an_result.vomit_correlation)
               /\ ~NaNInSleep(an_result.sleep_patterns)
               /\ ~NaNInFeeding(an_result.feeding_patterns)
               /\ ~NaNInGrowth(an_result.growth)
               /\ ~NaNInDailyStats(an_result.daily_stats)

\* C20: the rows of the growth frame parse_all returns are the events of
\* the categories weight, height and temperature, one row for each, in the
\* order of the events frame.
C20_GrowthInSourceOrder ==
    LET OfEvents(rows) ==
            [i \in 1..Len(rows) |->
                [type |-> rows[i].category, datetime |-> rows[i].datetime,
                 value |-> rows[i].value, unit |-> rows[i].unit]]
        OfGrowth(rows) ==
            [i \in 1..Len(rows) |->
                [type |-> rows[i].type, datetime |-> rows[i].datetime,
                 value |-> rows[i].value, unit |-> rows[i].unit]]
    IN  (last_call = "parse_all" /\ raised = "none")
            => OfGrowth(growth_df.rows)
                  = OfEvents(SelectSeq(events_df.rows,
                                       LAMBDA e : e.category \in {"weight", "height",
                                                                  "temperature"}))

\* C14: analyze_growth computes first, last, min, max and change of the
\* weights from their values in kg, the value of a record in kg as it is and
\* the value of a record in g divided by 1000; the converted records are all
\* labelled kg, and converting a converted record changes nothing.
C14_WeightsInKg ==
    LET Same(a, b) == a.num * Pow10(b.exp) = b.num * Pow10(a.exp)
        Kg(r) == IF r.unit = "g"
                 THEN [kind |-> "float", num |-> r.value.num, exp |-> r.value.exp + 3]
                 ELSE r.value
        Holds(weights, w) ==
            /\ Len(w.data) = Len(weights)
            /\ \A i \in 1..Len(weights) : Same(w.data[i].value, Kg(weights[i]))
            /\ Same(w.first, Kg(weights[1]))
            /\ Same(w.last, Kg(weights[Len(weights)]))
            /\ \A i \in 1..Len(weights) :
                  ~DecLess(Kg(weights[i]), w.min) /\ ~DecLess(w.max, Kg(weights[i]))
            /\ \E i \in 1..Len(weights) : Same(w.min, Kg(weights[i]))
            /\ \E i \in 1..Len(weights) : Same(w.max, Kg(weights[i]))
            /\ Same(AddVal(w.change, Kg(weights[1])), Kg(weights[Len(weights)]))
            /\ \A i \in 1..Len(weights) :
                  /\ ToKg(weights[i]).unit = "kg"
                  /\ ToKg(ToKg(weights[i])) = ToKg(weights[i])
    IN  (/\ an_call.name = "analyze_growth"
         /\ an_raised = "none"
         /\ an_result.kind = "growth"
         /\ OfType(an_growth_df.rows, "weight") # <<>>)
            => /\ an_result.weight_kg # Absent
               /\ Holds(SortedByDate(OfType(an_growth_df.rows, "weight")),
                        an_result.weight_kg)

\* analyze_growth has returned the weights of a frame with a weight in g and
\* a weight in kg
C14_Witness ==
    /\ an_call.name = "analyze_growth"
    /\ an_raised = "none"
    /\ an_result.kind = "growth"
    /\ an_result.weight_kg # Absent
    /\ \E i, j \in 1..Len(an_growth_df.rows) :
          /\ an_growth_df.rows[i].type = "weight" /\ an_growth_df.rows[i].unit = "g"
          /\ an_growth_df.rows[j].type = "weight" /\ an_growth_df.rows[j].unit = "kg"

\* C15: a call of get_time_series_data, get_daily_patterns,
\* analyze_vomit_correlation, analyze_sleep_patterns,
\* analyze_feeding_patterns, analyze_growth or get_comprehensive_analysis
\* leaves the three frames of the analyzer as they are, so every sequence
\* of calls does.
C15_FramesUnchanged ==
    [][an_call'.name \notin {"__init__", "load_data"}
          => /\ an_events_df' = an_events_df
             /\ an_daily_df' = an_daily_df
             /\ an_growth_df' = an_growth_df]_vars

\* get_comprehensive_analysis has returned for frames with a vomit event,
\* days to lag and a weight in g, and the frames have no column hour or
\* milk_amount_lag1 and the weight is in g
C15_Witness ==
    /\ an_call.name = "get_comprehensive_analysis"
    /\ an_raised = "none"
    /\ an_result.kind = "comprehensive"
    /\ an_result.vomit_correlation.kind = "correlations"
    /\ OfCategory(an_events_df.rows, "vomit") # <<>>
    /\ "hour" \notin an_events_df.columns
    /\ "milk_amount_lag1" \notin an_daily_df.columns
    /\ \E i \in 1..Len(an_growth_df.rows) :
          an_growth_df.rows[i].type = "weight" /\ an_growth_df.rows[i].unit = "g"

\* C18: the category of every event is that of the first keyword that
\* occurs in its type text when the keywords are taken in the order wake,
\* sleep, milk, breastfeed, pee, poop, vomit, bath, weight, height,
\* temperature, hospital, vaccination, food, medicine, medical (either of
\* two keywords), examination, and it is other exactly when none occurs.
C18_FirstKeywordWins ==
    LET Order ==
            <<[word |-> "okiru", category |-> "wake"],
              [word |-> "neru", category |-> "sleep"],
              [word |-> "miruku", category |-> "milk"],
              [word |-> "bonyu", category |-> "breastfeed"],
              [word |-> "oshikko", category |-> "pee"],
              [word |-> "unchi", category |-> "poop"],
              [word |-> "haku", category |-> "vomit"],
              [word |-> "ofuro", category |-> "bath"],
              [word |-> "taiju", category |-> "weight"],
              [word |-> "shincho", category |-> "height"],
              [word |-> "taion", category |-> "temperature"],
              [word |-> "byoin", category |-> "hospital"],
              [word |-> "yobosesshu", category |-> "vaccination"],
              [word |-> "rinyushoku", category |-> "food"],
              [word |-> "kusuri", category |-> "medicine"],
              [word |-> "kensa", category |-> "medical"],
              [word |-> "shochi", category |-> "medical"],
              [word |-> "shinsatsu", category |-> "examination"]>>
        Occurring(type) ==
            {i \in 1..Len(Order) : \E k \in 1..Len(type) : type[k] = Order[i].word}
        First(hits) == CHOOSE i \in hits : \A j \in hits : i <= j
    IN  \A e \in ParsedEvents :
           /\ Occurring(e.type) # {}
                 => e.category = Order[First(Occurring(e.type))].category
           /\ Occurring(e.type) = {} <=> e.category = "other"

\* an event whose type text has two keywords, the later of the order first
C18_Witness ==
    \E e \in ParsedEvents : e.type = <<"taiju", "ofuro">> /\ e.category = "bath"

\* C19: the value and the unit of every event are those of the first of the
\* patterns, in the order ml, hours and minutes, weight, height,
\* temperature, vomit level, that matches its text, and None when none does.
C19_FirstPatternWins ==
    LET Or(first, later) == IF first # NoValue THEN first ELSE later
        FirstMatch(e) ==
            Or(MilkValue(e.type, NoValue),
               Or(SleepValue(e.detail, NoValue),
                  Or(WeightValue(e.type, NoValue),
                     Or(DecimalValue(e.type, "cm", NoValue),
                        Or(DecimalValue(e.type, "degC", NoValue),
                           VomitValue(e.type, NoValue))))))
    IN  \A e \in ParsedEvents :
           [value |-> e.value, unit |-> e.unit] = FirstMatch(e)

\* C16: when the requests that parse name different files, the analysis a
\* request returns is made of frames of one parse, and when every request
\* has finished the three CSV files of DATA_DIR are those of one parse.  A
\* frame the request does not have counts for no parse.
C16_OneParsePerAnalysis ==
    LET Parses(from) == {from.events, from.daily_summary, from.growth} \ {0}
        DifferentFiles ==
            \A i, j \in 1..Len(api_requests) :
                (i # j /\ api_requests[i].kind # "analyze"
                       /\ api_requests[j].kind # "analyze")
                    => api_requests[i].file # api_requests[j].file
    IN  DifferentFiles
            => /\ \A k \in 1..Len(api_requests) :
                     (/\ api_requests[k].status = "success"
                      /\ api_requests[k].analysis # NoResult)
                         => Cardinality(Parses(api_requests[k].from)) <= 1
               /\ (\A k \in 1..Len(api_requests) : api_requests[k].pc = "done")
                     => Cardinality(Parses([events |-> data_dir.events.from,
                                            daily_summary |-> data_dir.daily_summary.from,
                                            growth |-> data_dir.growth.from])) <= 1

\* C21: every day-block of the document that has a date header and the blank
\* line after its two header lines yields exactly one day entry, with the
\* date of its header, and one row of the daily summaries, whatever the
\* blocks before and after it are (a block of two header lines only, a block
\* without the blank line).
C21_OneEntryPerBlock ==
    /\ (last_call = "parse_days" /\ raised = "none") =>
          \A i \in DatedBlocks :
             doc[i].blank =>
                /\ Cardinality(EntriesOf(i)) = 1
                /\ \A k \in EntriesOf(i) : days_data[k].date = BlockDate(doc[i])
    /\ (last_call = "create_daily_summary_dataframe" /\ raised = "none") =>
          \A i \in DatedBlocks :
             doc[i].blank =>
                Cardinality({k \in 1..Len(daily_summary_df.rows) :
                                daily_summary_df.rows[k].at = BlockStart(doc, i)}) = 1

\* C22: the day entry of a dated day-block that has no summary marker, or
\* whose summary region deviates from the template, has 0 in all seven
\* summary fields; parse_days raises nothing and the entry has one event for
\* each event line of the block.
C22_SummaryDefaultsToZero ==
    last_call = "parse_days" =>
        /\ raised = "none"
        /\ \A i \in DatedBlocks : \A k \in EntriesOf(i) :
              doc[i].summary.kind # "template" =>
                 /\ days_data[k].summary = ZeroSummary
                 /\ Len(days_data[k].events) = Len(doc[i].lines)

\* the events get_daily_patterns was called for: those of the category of
\* the call that have a value
PatternCallEvents == Selected(an_events_df.rows, an_call.category, an_call.unit)

\* C23: in what get_daily_patterns returns, the daily average of every part
\* of the day is its count of events divided by the number of dates on
\* which the category of the call has an event, the same for every part.
C23_DailyAverageOverAllDays ==
    LET Days(events) == Cardinality({events[i].date : i \in 1..Len(events)})
    IN  (/\ an_call.name = "get_daily_patterns"
         /\ an_raised = "none"
         /\ an_result.kind = "pattern")
            => \A k \in 1..Len(an_result.rows) :
                  an_result.rows[k].daily_avg[1] * Days(PatternCallEvents)
                     = an_result.rows[k].count * an_result.rows[k].daily_avg[2]

\* C24: a call of get_daily_patterns on a frame of events raises nothing,
\* whatever parts of the day have no event, and the labels of the rows it
\* returns are those of the parts of the day the events of the call are in:
\* the hour h for 24 parts, else the hours from floor(b * 24 / N) to
\* floor((b + 1) * 24 / N) of part b.
C24_PatternsOfAnyEvents ==
    LET N == an_call.hour_bins
        LabelOf(b) == IF N = 24 THEN [from |-> b, to |-> b]
                      ELSE [from |-> (b * 24) \div N, to |-> ((b + 1) * 24) \div N]
        Labels(events) ==
            {LabelOf((events[i].datetime.min \div 60) \div (24 \div N)) :
                i \in 1..Len(events)}
    IN  (/\ an_call.name = "get_daily_patterns"
         /\ {"category", "value", "datetime", "date"} \subseteq an_events_df.columns)
            => /\ an_raised = "none"
               /\ {an_result.rows[k].label : k \in 1..Len(an_result.rows)}
                     = Labels(PatternCallEvents)

\* C25: when the daily summaries are in the order of their dates, one row
\* for a date, the lag-1 correlation is computed over one pair for each day
\* whose previous calendar day is in them too, the milk_amount of that
\* previous day with the vomit_count of the day.
C25_LagIsPreviousCalendarDay ==
    LET HasDay(ord) == \E j \in 1..Len(an_daily_df.rows) : an_daily_df.rows[j].date = ord
        Pairs == an_result.lag1_pairs
        InOrder == \A i \in 1..(Len(an_daily_df.rows) - 1) :
                      an_daily_df.rows[i].date < an_daily_df.rows[i + 1].date
    IN  (/\ an_call.name = "analyze_vomit_correlation"
         /\ an_raised = "none"
         /\ an_result.kind = "correlations"
         /\ InOrder)
            => /\ \A k \in 1..Len(Pairs) :
                     \E j \in 1..Len(an_daily_df.rows) :
                        /\ an_daily_df.rows[j].date = Pairs[k].date - 1
                        /\ an_daily_df.rows[j].milk_amount = Pairs[k].milk_amount_lag1
               /\ \A i \in 1..Len(an_daily_df.rows) :
                     HasDay(an_daily_df.rows[i].date - 1)
                        => \E k \in 1..Len(Pairs) :
                              /\ Pairs[k].date = an_daily_df.rows[i].date
                              /\ Pairs[k].vomit_count = an_daily_df.rows[i].vomit_count

\* C26: when the growth frame has a weight, and likewise when it has a
\* height, what analyze_growth returns for it has first, last, min, max and
\* change; first and last are the values (a weight in kg) of a record of the
\* earliest and of the latest date, and change is last - first.
C26_FirstLastMinMaxChange ==
    LET Same(a, b) == a.num * Pow10(b.exp) = b.num * Pow10(a.exp)
        Reported(records, entry) ==
            records # <<>> =>
               /\ entry # Absent
               /\ {"first", "last", "min", "max", "change"} \subseteq DOMAIN entry
               /\ \E i \in 1..Len(records) :
                     /\ \A j \in 1..Len(records) : records[i].date <= records[j].date
                     /\ Same(entry.first, records[i].value)
               /\ \E i \in 1..Len(records) :
                     /\ \A j \in 1..Len(records) : records[i].date >= records[j].date
                     /\ Same(entry.last, records[i].value)
               /\ Same(AddVal(entry.change, entry.first), entry.last)
    IN  (/\ an_call.name = "analyze_growth"
         /\ an_raised = "none"
         /\ an_result.kind = "growth")
            => /\ Reported(WeightData(an_growth_df.rows), an_result.weight_kg)
               /\ Reported(OfType(an_growth_df.rows, "height"), an_result.height_cm)

MilkRows == SelectSeq(an_events_df.rows, LAMBDA e : e.category = "milk")

\* C28: the follow-on counts of analyze_vomit_correlation satisfy
\* 0 <= c30 <= c60 <= c120 <= number of milk events; each rate is the count
\* over the number of milk events and lies in [0, 1], and every rate is 0
\* when there is no milk event.
C28_FollowOnCountsBounded ==
    an_result.kind = "correlations" =>
        LET c == an_result.milk_followed_by_vomit.count
            rate == an_result.milk_followed_by_vomit.rate
        IN  /\ 0 <= c[30] /\ c[30] <= c[60] /\ c[60] <= c[120]
            /\ c[120] <= Len(MilkRows)
            /\ \A w \in {30, 60, 120} :
                  /\ Len(MilkRows) > 0 => rate[w] = <<c[w], Len(MilkRows)>>
                  /\ Len(MilkRows) = 0 => rate[w] = <<0, 1>>
                  /\ 0 <= rate[w][1] /\ rate[w][1] <= rate[w][2]

\* an analysed frame with one milk event that two vomit events follow
\* within 30 minutes: the count of each window is 1
C28_Witness ==
    /\ an_result.kind = "correlations"
    /\ Len(MilkRows) = 1
    /\ Cardinality({j \in 1..Len(an_events_df.rows) :
            /\ an_events_df.rows[j].category = "vomit"
            /\ AbsMinutes(MilkRows[1].datetime)
                  < AbsMinutes(an_events_df.rows[j].datetime)
            /\ AbsMinutes(an_events_df.rows[j].datetime)
                  <= AbsMinutes(MilkRows[1].datetime) + 30}) = 2
    /\ an_result.milk_followed_by_vomit.count[30] = 1

\* an analysed frame without a milk event
C28_NoMilk ==
    /\ an_result.kind = "correlations"
    /\ Len(MilkRows) = 0
    /\ Len(an_events_df.rows) > 0

\* the parser calls that parse the text or build frames from the entries
ParsingCalls ==
    {"parse_days", "create_events_dataframe", "create_daily_summary_dataframe",
     "create_growth_dataframe", "parse_all", "save_to_csv"}

\* the first parse_all of a new parser on the file
FirstParseAll == ParseAllOn(NewParser(File(file_ok, file_text)))

\* C29: with the file unchanged, after any sequence of parse_days, the
\* create_ methods, parse_all and save_to_csv, days_data has one entry for
\* each day-block the day pattern recognizes, never two for one block, and
\* a parse_all that returns gives the three frames of the first parse_all.
C29_RepeatedCallsDoNotAccumulate ==
    /\ \A j, k \in 1..Len(days_data) :
          j # k => days_data[j].at # days_data[k].at
    /\ (last_call \in ParsingCalls /\ raised = "none") =>
          days_data = ParseDaysOf(file_text).days
    /\ (last_call = "parse_all" /\ raised = "none") =>
          /\ FirstParseAll.raised = "none"
          /\ events_df = FirstParseAll.self.events_df
          /\ daily_summary_df = FirstParseAll.self.daily_summary_df
          /\ growth_df = FirstParseAll.self.growth_df

\* a parse_all that returns two entries with events, after save_to_csv has
\* written the files of an earlier parse
C29_Witness ==
    /\ last_call = "parse_all"
    /\ raised = "none"
    /\ data_dir.events.exists
    /\ Len(days_data) = 2
    /\ Len(events_df.rows) > 0

\* the count of vomit_hour_distribution for the hour h
HourCount(analysis, h) ==
    IF h \in DOMAIN analysis.vomit_correlation.vomit_hour_distribution
    THEN analysis.vomit_correlation.vomit_hour_distribution[h]
    ELSE 0

\* C30: for the tree get_comprehensive_analysis returned to /api/analyze or
\* /api/process, prepare_api_response returns, and returns the same
\* response for the tree itself and for the tree after save_json and
\* load_json; the 24 hourly vomit counts of the response are the counts of
\* vomit_hour_distribution.
C30_ResponseSurvivesJson ==
    \A k \in 1..Len(api_requests) :
        LET q == api_requests[k]
            direct == PrepareApiResponse(DirectTree(q.analysis))
            loaded == PrepareApiResponse(SavedAndLoaded(DirectTree(q.analysis)))
        IN  (q.pc = "done" /\ q.analysis.kind = "comprehensive") =>
               /\ direct.raised = "none"
               /\ loaded.raised = "none"
               /\ direct.result = loaded.result
               /\ q.status = "success"
               /\ q.response = direct.result
               /\ q.analysis.vomit_correlation.kind = "correlations" =>
                     \A h \in 0..23 :
                        q.response.hourly_patterns[h] = HourCount(q.analysis, h)
====
